---- MODULE Spec2Model ----
(***************************************************************************)
(* Model of the arbitrary-base number engine of src/src/main.c: the        *)
(* number_t data model, the canonicalizer normalize_number, the signed     *)
(* adder number_add and the integer long division number_int_divmod_abs.   *)
(*                                                                         *)
(* A number_t is a record                                                  *)
(*   [base, digits, neg, dec, rep, alloc]                                  *)
(* digits is proto.digits[0 .. proto.length-1] (most significant first,    *)
(* TLA+ index = C index + 1), neg is is_negative, dec is decimal_length,   *)
(* rep is repeating_length, alloc is "proto.digits != NULL".               *)
(*                                                                         *)
(* size_t values are kept as integers; the one value that the code can     *)
(* wrap to, SIZE_MAX = (size_t)-1, is written -1, so that sums and         *)
(* differences taken in the integers agree with the code's arithmetic      *)
(* modulo 2^64, and unsigned comparisons are spelled out where a wrapped   *)
(* value can take part in them.                                            *)
(***************************************************************************)
EXTENDS Integers, Sequences, FiniteSets, TLC

VARIABLES pc, op, a, b, res, res2, mallocZero

vars == <<pc, op, a, b, res, res2, mallocZero>>

(* ------------------------------ bounds -------------------------------- *)

\* longest digit array of an operand (of the first one of two)
MaxLen == 3

\* longest digit array of the second operand
MaxLenB == 2

\* longest digit array of an operand of the rejected-operand cases
MaxErrLen == 1

\* longest numerator and denominator of the operands of rational_add
MaxRatLen == 1

\* longest text handed to the parser
MaxStrLen == 6

\* longest Number of the largest radix, whose digits go up to the glyph Z
MaxGlyphLen == 1

\* radixes explored (the code accepts 2..36)
Bases == {2, 3}

\* contents of a byte outside a digit buffer, as an out-of-bounds read can
\* find it: zero, a digit, a byte that is no digit
HeapBytes == {0, 1, 255}

(* --------------------------- the data model --------------------------- *)

Max(x, y) == IF x > y THEN x ELSE y

Number(base, digits, neg, dec, rep) ==
  [base |-> base, digits |-> digits, neg |-> neg, dec |-> dec, rep |-> rep,
   alloc |-> TRUE]

\* allocate_number_array(base, 0): no digit; malloc(0) returns NULL or a
\* unique pointer (mallocZero), the length is 0 either way.
Invalid(base, nonNull) ==
  [base |-> base, digits |-> << >>, neg |-> FALSE, dec |-> 0, rep |-> 0,
   alloc |-> nonNull]

Empty(base) == Invalid(base, mallocZero)

\* allocate_number_array(base, length) for length > 0, the buffer filled by
\* the caller with the given digits.
allocate_number_array(base, digits) ==
  IF Len(digits) = 0 THEN Empty(base)
  ELSE Number(base, digits, FALSE, 0, 0)

\* the one-digit zero that number_add, number_int_mul_abs and
\* normalize_number build
Zero(base) == Number(base, <<0>>, FALSE, 0, 0)

IsValid(n) == n.alloc /\ Len(n.digits) > 0

AllZero(digits) == \A i \in 1..Len(digits) : digits[i] = 0

(* --------------------------- normalize_number ------------------------- *)

\* step (a): a repeating window that holds only zeros is dropped
drop_zero_repeating(num) ==
  LET length == Len(num.digits)
      repeating_start == length - num.rep
  IN IF num.rep > 0 /\ (\A i \in (repeating_start + 1)..length : num.digits[i] = 0)
     THEN [num EXCEPT !.digits = SubSeq(num.digits, 1, repeating_start),
                      !.dec = num.dec - num.rep,
                      !.rep = 0]
     ELSE num

RECURSIVE skip_leading_zeros(_, _, _)
skip_leading_zeros(digits, first_nonzero, decimal_pos) ==
  IF first_nonzero < decimal_pos /\ digits[first_nonzero + 1] = 0
  THEN skip_leading_zeros(digits, first_nonzero + 1, decimal_pos)
  ELSE first_nonzero

RECURSIVE skip_trailing_zeros(_, _, _)
skip_trailing_zeros(digits, last_nonzero, decimal_pos) ==
  IF last_nonzero >= decimal_pos /\ digits[last_nonzero + 1] = 0
  THEN IF last_nonzero = 0 THEN last_nonzero
       ELSE skip_trailing_zeros(digits, last_nonzero - 1, decimal_pos)
  ELSE last_nonzero

\* the in-place copy digits[i] = digits[first_nonzero + i], i ascending.
\* first_nonzero = -1 is SIZE_MAX: the source index wraps to i - 1, so the
\* first read is of the byte before the buffer (g) and the last write may be
\* one past the digits the buffer holds.
RECURSIVE shift_digits(_, _, _, _, _)
shift_digits(buf, first_nonzero, i, new_length, g) ==
  IF i >= new_length THEN buf
  ELSE LET src == first_nonzero + i
           v == IF src < 0 THEN g ELSE buf[src + 1]
           nb == IF i + 1 <= Len(buf) THEN [buf EXCEPT ![i + 1] = v]
                 ELSE Append(buf, v)
       IN shift_digits(nb, first_nonzero, i + 1, new_length, g)

\* TRUE when normalize_number computes decimal_pos - 1 with decimal_pos = 0:
\* the number has fractional digits and no integer digit.
normalize_underflows(num) ==
  /\ IsValid(num)
  /\ LET n1 == drop_zero_repeating(num)
     IN n1.dec > 0 /\ Len(n1.digits) - n1.dec = 0

\* the last steps of normalize_number: the zero result, or the digits
\* shifted to the front and the fields adjusted.  n1 is the number after
\* step (a), g the byte an out-of-bounds read returns.
normalize_store(num, n1, decimal_pos, first_nonzero, new_length, decimal_length, g) ==
  IF new_length = 0 \/ (new_length = 1 /\ n1.digits[first_nonzero + 1] = 0)
  THEN [num EXCEPT !.digits = <<0>>, !.dec = 0, !.rep = 0, !.neg = FALSE]
  ELSE
    LET buf == IF first_nonzero # 0
               THEN shift_digits(num.digits, first_nonzero, 0, new_length, g)
               ELSE num.digits
        \* old_decimal_start > first_nonzero, unsigned
        new_decimal_start == IF first_nonzero >= 0 /\ decimal_pos > first_nonzero
                             THEN decimal_pos - first_nonzero ELSE 0
    IN [num EXCEPT !.digits = SubSeq(buf, 1, new_length),
                   !.dec = IF decimal_length > 0 THEN new_length - new_decimal_start
                           ELSE decimal_length,
                   !.rep = IF n1.rep > 0 /\ new_length - n1.rep < new_decimal_start
                           THEN 0 ELSE n1.rep]

\* steps (b) and (c) done: f0 and l0 are where the two scans stopped
normalize_trim(num, n1, decimal_pos, f0, l0, g) ==
  LET first_nonzero == IF f0 = decimal_pos /\ n1.dec > 0 THEN decimal_pos - 1 ELSE f0
      cut == n1.dec > 0 /\ n1.rep = 0 /\ l0 < decimal_pos
      last_nonzero == IF cut THEN decimal_pos - 1 ELSE l0
  IN normalize_store(num, n1, decimal_pos, first_nonzero,
                     last_nonzero - first_nonzero + 1,
                     IF cut THEN 0 ELSE n1.dec, g)

\* the scans for the first and the last digit to keep
normalize_scan(num, n1, decimal_pos, g) ==
  normalize_trim(num, n1, decimal_pos,
                 skip_leading_zeros(n1.digits, 0, decimal_pos),
                 IF n1.dec > 0 /\ n1.rep = 0
                 THEN skip_trailing_zeros(n1.digits, Len(n1.digits) - 1, decimal_pos)
                 ELSE Len(n1.digits) - 1,
                 g)

normalize_dropped(num, n1, g) == normalize_scan(num, n1, Len(n1.digits) - n1.dec, g)

\* normalize_number(num); g is the byte an out-of-bounds read returns.
normalize_number(num, g) ==
  IF ~num.alloc \/ Len(num.digits) = 0 THEN num
  ELSE normalize_dropped(num, drop_zero_repeating(num), g)

\* normalize_number on a number that has an integer digit reads no byte
\* outside the buffer
normalize(num) == normalize_number(num, 0)

(* ------------------------------ compare_abs --------------------------- *)

\* the integer-digit loop of compare_abs, from index i
RECURSIVE compare_int_digits(_, _, _, _)
compare_int_digits(x, y, i, int_len) ==
  IF i >= int_len THEN 0
  ELSE LET da == x.digits[i + 1]
           db == y.digits[i + 1]
       IN IF da < db THEN -1
          ELSE IF da > db THEN 1
          ELSE compare_int_digits(x, y, i + 1, int_len)

\* the fractional-digit loop of compare_abs: position k after the radix
\* point of either operand, a missing digit read as 0
RECURSIVE compare_frac_digits(_, _, _, _, _, _)
compare_frac_digits(x, y, a_int_len, b_int_len, k, max_frac) ==
  IF k >= max_frac THEN 0
  ELSE LET a_idx == a_int_len + k
           b_idx == b_int_len + k
           da == IF k < x.dec /\ a_idx < Len(x.digits) THEN x.digits[a_idx + 1] ELSE 0
           db == IF k < y.dec /\ b_idx < Len(y.digits) THEN y.digits[b_idx + 1] ELSE 0
       IN IF da < db THEN -1
          ELSE IF da > db THEN 1
          ELSE compare_frac_digits(x, y, a_int_len, b_int_len, k + 1, max_frac)

compare_abs(x, y) ==
  IF ~x.alloc \/ ~y.alloc THEN 0
  ELSE LET a_int_len == Len(x.digits) - x.dec
           b_int_len == Len(y.digits) - y.dec
       IN IF a_int_len < b_int_len THEN -1
          ELSE IF a_int_len > b_int_len THEN 1
          ELSE LET c == compare_int_digits(x, y, 0, a_int_len)
               IN IF c # 0 THEN c
                  ELSE compare_frac_digits(x, y, a_int_len, b_int_len, 0,
                                           Max(x.dec, y.dec))

(* ------------------------------ add_same_sign ------------------------- *)

\* The digit loops keep st = [digits, carry]: the digits written so far,
\* result.proto.digits[ri .. max_total-1], and the running carry or borrow.

\* fractional loop of add_same_sign: step k takes the k-th digit from the
\* right end of each operand, while k < its decimal_length
RECURSIVE add_frac_loop(_, _, _, _, _, _)
add_frac_loop(x, y, base, k, max_frac_len, st) ==
  IF k >= max_frac_len THEN st
  ELSE LET a_pos == Len(x.digits) - 1 - k
           b_pos == Len(y.digits) - 1 - k
           da == IF k < x.dec /\ a_pos >= 0 /\ a_pos < Len(x.digits)
                 THEN x.digits[a_pos + 1] ELSE 0
           db == IF k < y.dec /\ b_pos >= 0 /\ b_pos < Len(y.digits)
                 THEN y.digits[b_pos + 1] ELSE 0
           sum == da + db + st.carry
       IN add_frac_loop(x, y, base, k + 1, max_frac_len,
                        [digits |-> <<sum % base>> \o st.digits,
                         carry |-> sum \div base])

\* integer loop of add_same_sign
RECURSIVE add_int_loop(_, _, _, _, _, _, _, _)
add_int_loop(x, y, base, a_int_len, b_int_len, k, max_int_len, st) ==
  IF k >= max_int_len THEN st
  ELSE LET a_pos == IF a_int_len > k THEN a_int_len - 1 - k ELSE -1
           b_pos == IF b_int_len > k THEN b_int_len - 1 - k ELSE -1
           da == IF a_int_len > k /\ a_pos >= 0 /\ a_pos < Len(x.digits)
                 THEN x.digits[a_pos + 1] ELSE 0
           db == IF b_int_len > k /\ b_pos >= 0 /\ b_pos < Len(y.digits)
                 THEN y.digits[b_pos + 1] ELSE 0
           sum == da + db + st.carry
       IN add_int_loop(x, y, base, a_int_len, b_int_len, k + 1, max_int_len,
                       [digits |-> <<sum % base>> \o st.digits,
                        carry |-> sum \div base])

\* add_same_sign up to its call of normalize_number: the digits, sign and
\* decimal_length of the sum
add_same_sign_digits(x, y) ==
  LET base == x.base
      a_int_len == Len(x.digits) - x.dec
      b_int_len == Len(y.digits) - y.dec
      max_int_len == Max(a_int_len, b_int_len)
      max_frac_len == Max(x.dec, y.dec)
      f == add_frac_loop(x, y, base, 0, max_frac_len, [digits |-> << >>, carry |-> 0])
      t == add_int_loop(x, y, base, a_int_len, b_int_len, 0, max_int_len, f)
      used == IF t.carry # 0 THEN <<t.carry>> \o t.digits ELSE t.digits
  IN [base |-> base, digits |-> used, neg |-> x.neg, dec |-> max_frac_len,
      rep |-> 0, alloc |-> TRUE]

\* add_same_sign without its closing call of normalize_number
add_same_sign_unnormalized(x, y, g) ==
  IF ~x.alloc \/ ~y.alloc \/ x.base # y.base THEN Empty(x.base)
  ELSE IF x.rep # 0 \/ y.rep # 0 THEN Empty(x.base)
  ELSE add_same_sign_digits(x, y)

add_same_sign(x, y, g) ==
  IF ~x.alloc \/ ~y.alloc \/ x.base # y.base THEN Empty(x.base)
  ELSE IF x.rep # 0 \/ y.rep # 0 THEN Empty(x.base)
  ELSE normalize_number(add_same_sign_digits(x, y), g)

(* ---------------------------- sub_same_sign_abs ----------------------- *)

\* sub_digit that does not take the borrow of the digit before
sub_digit_borrow_dropped(da, db, borrow, base) ==
  LET diff == da - db
  IN IF diff < 0 THEN [digit |-> diff + base, borrow |-> 1]
     ELSE [digit |-> diff, borrow |-> 0]

\* one digit of a subtraction with borrow: [digit, borrow]
sub_digit(da, db, borrow, base) ==
  LET diff == da - db - borrow
  IN IF diff < 0 THEN [digit |-> diff + base, borrow |-> 1]
     ELSE [digit |-> diff, borrow |-> 0]

\* fractional loop of sub_same_sign_abs
RECURSIVE sub_frac_loop(_, _, _, _, _, _)
sub_frac_loop(x, y, base, k, max_frac_len, st) ==
  IF k >= max_frac_len THEN st
  ELSE LET a_pos == Len(x.digits) - 1 - k
           b_pos == Len(y.digits) - 1 - k
           da == IF k < x.dec /\ a_pos >= 0 /\ a_pos < Len(x.digits)
                 THEN x.digits[a_pos + 1] ELSE 0
           db == IF k < y.dec /\ b_pos >= 0 /\ b_pos < Len(y.digits)
                 THEN y.digits[b_pos + 1] ELSE 0
           d == sub_digit(da, db, st.carry, base)
       IN sub_frac_loop(x, y, base, k + 1, max_frac_len,
                        [digits |-> <<d.digit>> \o st.digits, carry |-> d.borrow])

\* integer loop of sub_same_sign_abs
RECURSIVE sub_int_loop(_, _, _, _, _, _, _, _)
sub_int_loop(x, y, base, a_int_len, b_int_len, k, max_int_len, st) ==
  IF k >= max_int_len THEN st
  ELSE LET a_pos == IF a_int_len > k THEN a_int_len - 1 - k ELSE -1
           b_pos == IF b_int_len > k THEN b_int_len - 1 - k ELSE -1
           da == IF a_int_len > k /\ a_pos >= 0 /\ a_pos < Len(x.digits)
                 THEN x.digits[a_pos + 1] ELSE 0
           db == IF b_int_len > k /\ b_pos >= 0 /\ b_pos < Len(y.digits)
                 THEN y.digits[b_pos + 1] ELSE 0
           d == sub_digit(da, db, st.carry, base)
       IN sub_int_loop(x, y, base, a_int_len, b_int_len, k + 1, max_int_len,
                       [digits |-> <<d.digit>> \o st.digits, carry |-> d.borrow])

\* the two loops of sub_same_sign_abs with the borrow of the fractional
\* digits not taken over by the integer digits
sub_same_sign_loops_borrow_lost(x, y) ==
  LET a_int_len == Len(x.digits) - x.dec
      b_int_len == Len(y.digits) - y.dec
      f == sub_frac_loop(x, y, x.base, 0, Max(x.dec, y.dec),
                         [digits |-> << >>, carry |-> 0])
  IN sub_int_loop(x, y, x.base, a_int_len, b_int_len, 0,
                  Max(a_int_len, b_int_len), [f EXCEPT !.carry = 0])

\* the two loops of sub_same_sign_abs: [digits, carry], carry the borrow
\* left after the most significant digit
sub_same_sign_loops(x, y) ==
  LET a_int_len == Len(x.digits) - x.dec
      b_int_len == Len(y.digits) - y.dec
      f == sub_frac_loop(x, y, x.base, 0, Max(x.dec, y.dec),
                         [digits |-> << >>, carry |-> 0])
  IN sub_int_loop(x, y, x.base, a_int_len, b_int_len, 0,
                  Max(a_int_len, b_int_len), f)

\* sub_same_sign_abs up to its call of normalize_number
sub_same_sign_digits(x, y, negative_result) ==
  [base |-> x.base, digits |-> sub_same_sign_loops(x, y).digits,
   neg |-> negative_result, dec |-> Max(x.dec, y.dec), rep |-> 0, alloc |-> TRUE]

sub_same_sign_abs(x, y, negative_result, g) ==
  IF ~x.alloc \/ ~y.alloc \/ x.base # y.base THEN Empty(x.base)
  ELSE IF x.rep # 0 \/ y.rep # 0 THEN Empty(x.base)
  ELSE normalize_number(sub_same_sign_digits(x, y, negative_result), g)

(* -------------------------------- number_add -------------------------- *)

\* number_add with the operands of the subtraction not swapped when
\* |x| < |y|
number_add_unswapped(x, y, g) ==
  IF ~x.alloc \/ ~y.alloc THEN Empty(10)
  ELSE IF x.base # y.base THEN Empty(x.base)
  ELSE IF Len(x.digits) = 0 \/ Len(y.digits) = 0 THEN Empty(x.base)
  ELSE IF x.rep # 0 \/ y.rep # 0 THEN Empty(x.base)
  ELSE IF x.neg = y.neg THEN add_same_sign(x, y, g)
  ELSE LET cmp == compare_abs(x, y)
       IN IF cmp = 0 THEN Zero(x.base)
          ELSE IF cmp > 0 THEN sub_same_sign_abs(x, y, x.neg, g)
          ELSE sub_same_sign_abs(x, y, y.neg, g)

\* number_add that adds the magnitudes whatever the signs
number_add_sign_blind(x, y, g) ==
  IF ~x.alloc \/ ~y.alloc THEN Empty(10)
  ELSE IF x.base # y.base THEN Empty(x.base)
  ELSE IF Len(x.digits) = 0 \/ Len(y.digits) = 0 THEN Empty(x.base)
  ELSE IF x.rep # 0 \/ y.rep # 0 THEN Empty(x.base)
  ELSE add_same_sign(x, y, g)

\* number_add without the test for an empty operand
number_add_unchecked_length(x, y, g) ==
  IF ~x.alloc \/ ~y.alloc THEN Empty(10)
  ELSE IF x.base # y.base THEN Empty(x.base)
  ELSE IF x.rep # 0 \/ y.rep # 0 THEN Empty(x.base)
  ELSE IF x.neg = y.neg THEN add_same_sign(x, y, g)
  ELSE LET cmp == compare_abs(x, y)
       IN IF cmp = 0 THEN Zero(x.base)
          ELSE IF cmp > 0 THEN sub_same_sign_abs(x, y, x.neg, g)
          ELSE sub_same_sign_abs(y, x, y.neg, g)

number_add(x, y, g) ==
  IF ~x.alloc \/ ~y.alloc THEN Empty(10)
  ELSE IF x.base # y.base THEN Empty(x.base)
  ELSE IF Len(x.digits) = 0 \/ Len(y.digits) = 0 THEN Empty(x.base)
  ELSE IF x.rep # 0 \/ y.rep # 0 THEN Empty(x.base)
  ELSE IF x.neg = y.neg THEN add_same_sign(x, y, g)
  ELSE LET cmp == compare_abs(x, y)
       IN IF cmp = 0 THEN Zero(x.base)
          ELSE IF cmp > 0 THEN sub_same_sign_abs(x, y, x.neg, g)
          ELSE sub_same_sign_abs(y, x, y.neg, g)

\* the number handed to normalize_number at the end of number_add (the empty
\* number where number_add returns before)
number_add_digits(x, y) ==
  IF ~x.alloc \/ ~y.alloc \/ x.base # y.base
     \/ Len(x.digits) = 0 \/ Len(y.digits) = 0 \/ x.rep # 0 \/ y.rep # 0
  THEN Invalid(x.base, FALSE)
  ELSE IF x.neg = y.neg THEN add_same_sign_digits(x, y)
  ELSE LET cmp == compare_abs(x, y)
       IN IF cmp = 0 THEN Invalid(x.base, FALSE)
          ELSE IF cmp > 0 THEN sub_same_sign_digits(x, y, x.neg)
          ELSE sub_same_sign_digits(y, x, y.neg)

\* TRUE when the normalize_number that ends number_add(x, y) reads outside
\* the result's buffer
number_add_underflows(x, y) == normalize_underflows(number_add_digits(x, y))

(* ------------------------- number_int_sub_abs ------------------------- *)

\* digit loop of number_int_sub_abs, st = [digits, carry] as above
RECURSIVE int_sub_loop(_, _, _, _, _, _)
int_sub_loop(x, y, base, k, max_len, st) ==
  IF k >= max_len THEN st
  ELSE LET a_pos == IF Len(x.digits) > k THEN Len(x.digits) - 1 - k ELSE -1
           b_pos == IF Len(y.digits) > k THEN Len(y.digits) - 1 - k ELSE -1
           da == IF Len(x.digits) > k /\ a_pos >= 0 /\ a_pos < Len(x.digits)
                 THEN x.digits[a_pos + 1] ELSE 0
           db == IF Len(y.digits) > k /\ b_pos >= 0 /\ b_pos < Len(y.digits)
                 THEN y.digits[b_pos + 1] ELSE 0
           d == sub_digit(da, db, st.carry, base)
       IN int_sub_loop(x, y, base, k + 1, max_len,
                       [digits |-> <<d.digit>> \o st.digits, carry |-> d.borrow])

\* the result buffer of number_int_sub_abs holds max_len digits
number_int_sub_abs(x, y, negative_result) ==
  IF ~x.alloc \/ ~y.alloc \/ x.base # y.base THEN Empty(x.base)
  ELSE IF x.dec # 0 \/ y.dec # 0 \/ x.rep # 0 \/ y.rep # 0 THEN Empty(x.base)
  ELSE LET max_len == Max(Len(x.digits), Len(y.digits))
           t == int_sub_loop(x, y, x.base, 0, max_len, [digits |-> << >>, carry |-> 0])
       IN IF max_len = 0 /\ ~mallocZero THEN Empty(x.base)
          ELSE normalize([base |-> x.base, digits |-> t.digits, neg |-> negative_result,
                          dec |-> 0, rep |-> 0, alloc |-> TRUE])

(* ------------------- compare_int_abs, int_scalar_mul ------------------ *)

compare_int_abs(x, y) ==
  IF ~x.alloc \/ ~y.alloc THEN 0
  ELSE IF Len(x.digits) < Len(y.digits) THEN -1
  ELSE IF Len(x.digits) > Len(y.digits) THEN 1
  ELSE compare_int_digits(x, y, 0, Len(x.digits))

RECURSIVE scalar_mul_loop(_, _, _, _, _)
scalar_mul_loop(src, factor, base, k, st) ==
  IF k >= Len(src.digits) THEN st
  ELSE LET pos == Len(src.digits) - 1 - k
           prod == src.digits[pos + 1] * factor + st.carry
       IN scalar_mul_loop(src, factor, base, k + 1,
                          [digits |-> <<prod % base>> \o st.digits,
                           carry |-> prod \div base])

\* dst = src * factor, in len + 1 digits, then normalized
int_scalar_mul(src, factor) ==
  LET t == scalar_mul_loop(src, factor, src.base, 0, [digits |-> << >>, carry |-> 0])
  IN normalize(Number(src.base, <<t.carry>> \o t.digits, FALSE, 0, 0))

(* ------------------------ number_int_divmod_abs ----------------------- *)

\* remainder = remainder * base + current_digit, in place from the least
\* significant digit: st = [digits, carry], and the carry left over is the
\* digit that no longer fits
RECURSIVE shift_in_loop(_, _, _, _)
shift_in_loop(digits, base, k, st) ==
  IF k >= Len(digits) THEN st
  ELSE LET pos == Len(digits) - 1 - k
           val == digits[pos + 1] * base + st.carry
       IN shift_in_loop(digits, base, k + 1,
                        [digits |-> <<val % base>> \o st.digits,
                         carry |-> val \div base])

\* the binary search for the largest q_digit in [0, base-1] with
\* denominator * q_digit <= remainder
RECURSIVE search_q_digit(_, _, _, _, _)
search_q_digit(denominator, remainder, low, high, q_digit) ==
  IF ~(low <= high) THEN q_digit
  ELSE LET mid == (low + high) \div 2
           prod == int_scalar_mul(denominator, mid)
           cmp == compare_int_abs(prod, remainder)
       IN IF cmp <= 0
          THEN IF mid = denominator.base - 1 THEN mid
               ELSE search_q_digit(denominator, remainder, mid + 1, high, mid)
          ELSE IF mid = 0 THEN q_digit
               ELSE search_q_digit(denominator, remainder, low, mid - 1, q_digit)

\* remainder = remainder * base + current_digit, then normalized; past
\* tells whether the shift right by one wrote digits[remainder.length]
\* beyond the cap digits the buffer was allocated with
shift_in(remainder, current_digit, cap) ==
  LET sh == shift_in_loop(remainder.digits, remainder.base, 0,
                          [digits |-> << >>, carry |-> current_digit])
  IN [remainder |-> normalize([remainder EXCEPT
                                 !.digits = IF sh.carry > 0
                                            THEN <<sh.carry>> \o sh.digits
                                            ELSE sh.digits]),
      past |-> sh.carry > 0 /\ Len(remainder.digits) + 1 > cap]

\* remainder = remainder - denominator * q_digit: the remainder becomes the
\* result of number_int_sub_abs, whose buffer holds max_len digits
divmod_replace(st, remainder, past, q_digit, dq) ==
  [quotient |-> Append(st.quotient, q_digit),
   remainder |-> number_int_sub_abs(remainder, dq, FALSE),
   cap |-> Max(Len(remainder.digits), Len(dq.digits)),
   overflow |-> st.overflow \/ past]

\* the quotient digit is stored, and subtracted out when it is not zero
divmod_store(denominator, st, remainder, past, q_digit) ==
  IF q_digit # 0
  THEN divmod_replace(st, remainder, past, q_digit,
                      int_scalar_mul(denominator, q_digit))
  ELSE [quotient |-> Append(st.quotient, q_digit),
        remainder |-> remainder,
        cap |-> st.cap,
        overflow |-> st.overflow \/ past]

divmod_search(denominator, st, s) ==
  divmod_store(denominator, st, s.remainder, s.past,
               search_q_digit(denominator, s.remainder, 0, denominator.base - 1, 0))

\* The long division loop from step i on.  st = [quotient, remainder, cap,
\* overflow]: the quotient digits written so far, the running remainder, the
\* number of digits its buffer was allocated with, and whether a write went
\* past that buffer.
RECURSIVE divmod_loop(_, _, _, _)
divmod_loop(numerator, denominator, i, st) ==
  IF i >= Len(numerator.digits) THEN st
  ELSE divmod_loop(numerator, denominator, i + 1,
                   divmod_search(denominator, st,
                                 shift_in(st.remainder, numerator.digits[i + 1], st.cap)))

\* the final normalization of quotient and remainder
divmod_finish(base, t) ==
  [quotient |-> normalize(Number(base, t.quotient, FALSE, 0, 0)),
   remainder |-> normalize([t.remainder EXCEPT !.neg = FALSE, !.dec = 0, !.rep = 0]),
   overflow |-> t.overflow]

\* the quick path, the main path and their outputs
divmod_nonzero(numerator, denominator) ==
  IF compare_int_abs(numerator, denominator) < 0
  THEN [quotient |-> Zero(numerator.base),
        remainder |-> normalize(allocate_number_array(numerator.base, numerator.digits)),
        overflow |-> FALSE]
  \* the numerator has a digit here: one without digits compares below any
  \* denominator that is not zero
  ELSE divmod_finish(numerator.base,
                     divmod_loop(numerator, denominator, 0,
                                 [quotient |-> << >>,
                                  remainder |-> Zero(numerator.base),
                                  cap |-> Len(numerator.digits) + 1,
                                  overflow |-> FALSE]))

divmod_rejected == [quotient |-> Empty(10), remainder |-> Empty(10), overflow |-> FALSE]

\* number_int_divmod_abs without the test for a zero denominator
number_int_divmod_abs_unchecked(numerator, denominator) ==
  IF ~numerator.alloc \/ ~denominator.alloc \/ numerator.base # denominator.base
  THEN divmod_rejected
  ELSE IF numerator.dec # 0 \/ denominator.dec # 0
          \/ numerator.rep # 0 \/ denominator.rep # 0
  THEN divmod_rejected
  ELSE divmod_nonzero(numerator, denominator)

\* [quotient, remainder, overflow]: the two outputs as the code computes
\* them when every write lands in memory the remainder may use, and whether
\* one of the writes was past the end of the remainder's buffer
number_int_divmod_abs(numerator, denominator) ==
  IF ~numerator.alloc \/ ~denominator.alloc \/ numerator.base # denominator.base
  THEN divmod_rejected
  ELSE IF numerator.dec # 0 \/ denominator.dec # 0
          \/ numerator.rep # 0 \/ denominator.rep # 0
  THEN divmod_rejected
  ELSE IF AllZero(denominator.digits) THEN divmod_rejected
  ELSE divmod_nonzero(numerator, denominator)

(* ------------------------- number_int_add_abs ------------------------- *)

\* digit loop of number_int_add_abs, st = [digits, carry]
RECURSIVE int_add_loop(_, _, _, _, _, _)
int_add_loop(x, y, base, k, max_len, st) ==
  IF k >= max_len THEN st
  ELSE LET da == IF Len(x.digits) > k THEN x.digits[Len(x.digits) - k] ELSE 0
           db == IF Len(y.digits) > k THEN y.digits[Len(y.digits) - k] ELSE 0
           sum == da + db + st.carry
       IN int_add_loop(x, y, base, k + 1, max_len,
                       [digits |-> <<sum % base>> \o st.digits,
                        carry |-> sum \div base])

\* int_add_digits that forgets the carry out of the most significant digit
int_add_digits_carry_dropped(x, y) ==
  int_add_loop(x, y, x.base, 0, Max(Len(x.digits), Len(y.digits)),
               [digits |-> << >>, carry |-> 0]).digits

\* the digits written into the result buffer, the carry digit in front
int_add_digits(x, y) ==
  LET t == int_add_loop(x, y, x.base, 0, Max(Len(x.digits), Len(y.digits)),
                        [digits |-> << >>, carry |-> 0])
  IN IF t.carry # 0 THEN <<t.carry>> \o t.digits ELSE t.digits

number_int_add_abs(x, y) ==
  IF ~x.alloc \/ ~y.alloc \/ x.base # y.base THEN Empty(x.base)
  ELSE IF x.dec # 0 \/ y.dec # 0 \/ x.rep # 0 \/ y.rep # 0 THEN Empty(x.base)
  ELSE normalize(Number(x.base, int_add_digits(x, y), FALSE, 0, 0))

(* ------------------------- number_int_mul_abs ------------------------- *)

\* inner loop of the schoolbook multiplication: row ia of a (digit da)
\* times each digit of b, added into the result; st = [digits, carry]
RECURSIVE mul_row(_, _, _, _, _, _)
mul_row(y, base, da, ia, ib, st) ==
  IF ib >= Len(y.digits) THEN st
  ELSE LET pos_b == Len(y.digits) - 1 - ib
           pos_res == Len(st.digits) - 1 - (ia + ib)
           prod == da * y.digits[pos_b + 1] + st.digits[pos_res + 1] + st.carry
       IN mul_row(y, base, da, ia, ib + 1,
                  [digits |-> [st.digits EXCEPT ![pos_res + 1] = prod % base],
                   carry |-> prod \div base])

\* mul_carry that leaves the carry of a row where it is
mul_carry_dropped(base, pos_res, st) == st

\* "propagate any remaining carry"
RECURSIVE mul_carry(_, _, _)
mul_carry(base, pos_res, st) ==
  IF ~(st.carry > 0 /\ pos_res >= 0 /\ pos_res < Len(st.digits)) THEN st
  ELSE LET sum == st.digits[pos_res + 1] + st.carry
       IN IF pos_res = 0
          THEN [digits |-> [st.digits EXCEPT ![pos_res + 1] = sum % base],
                carry |-> sum \div base]
          ELSE mul_carry(base, pos_res - 1,
                         [digits |-> [st.digits EXCEPT ![pos_res + 1] = sum % base],
                          carry |-> sum \div base])

\* outer loop over the digits of a, from the least significant
RECURSIVE mul_rows(_, _, _, _)
mul_rows(x, y, ia, digits) ==
  IF ia >= Len(x.digits) THEN digits
  ELSE mul_rows(x, y, ia + 1,
                mul_carry(x.base, Len(digits) - 1 - (ia + Len(y.digits)),
                          mul_row(y, x.base, x.digits[Len(x.digits) - ia], ia, 0,
                                  [digits |-> digits, carry |-> 0])).digits)

number_int_mul_abs(x, y) ==
  IF ~x.alloc \/ ~y.alloc \/ x.base # y.base THEN Empty(x.base)
  ELSE IF x.dec # 0 \/ y.dec # 0 \/ x.rep # 0 \/ y.rep # 0 THEN Empty(x.base)
  ELSE IF AllZero(x.digits) \/ AllZero(y.digits) THEN Zero(x.base)
  ELSE normalize(Number(x.base,
                        mul_rows(x, y, 0, [i \in 1..(Len(x.digits) + Len(y.digits)) |-> 0]),
                        FALSE, 0, 0))

(* ------------------------- number_int_gcd_abs ------------------------- *)

\* Euclid's loop.  [value, overflow, hangs]: x when y has become the
\* one-digit zero, whether a division on the way wrote past its remainder
\* buffer, and whether the loop never ends: a y without digits is never the
\* one-digit zero, the division by it is rejected and returns a remainder
\* without digits again.
RECURSIVE gcd_loop(_, _, _)
RECURSIVE gcd_step(_, _, _)
gcd_loop(x, y, overflow) ==
  IF Len(y.digits) = 1 /\ y.digits[1] = 0
  THEN [value |-> x, overflow |-> overflow, hangs |-> FALSE]
  ELSE IF Len(y.digits) = 0
  THEN [value |-> x, overflow |-> overflow, hangs |-> TRUE]
  ELSE gcd_step(y, number_int_divmod_abs(x, y), overflow)

gcd_step(y, t, overflow) == gcd_loop(y, t.remainder, overflow \/ t.overflow)

number_int_gcd_abs(x, y) ==
  IF ~x.alloc \/ ~y.alloc \/ x.base # y.base
  THEN [value |-> Zero(x.base), overflow |-> FALSE, hangs |-> FALSE]
  ELSE IF x.dec # 0 \/ y.dec # 0 \/ x.rep # 0 \/ y.rep # 0
  THEN [value |-> Zero(x.base), overflow |-> FALSE, hangs |-> FALSE]
  ELSE IF (Len(x.digits) = 0 \/ Len(y.digits) = 0) /\ ~mallocZero
  THEN [value |-> Zero(x.base), overflow |-> FALSE, hangs |-> FALSE]
  ELSE gcd_loop(normalize([x EXCEPT !.neg = FALSE]),
                normalize([y EXCEPT !.neg = FALSE]), FALSE)

(* --------------------------- the rational layer ----------------------- *)

One(base) == Number(base, <<1>>, FALSE, 0, 0)

\* a rational_t
Rational(num, den) == [num |-> num, den |-> den]

\* the "safe default 0/1 in base 10" every rational constructor starts from
default_rational == Rational(Zero(10), One(10))

\* a copy of the digits of src as an integer with the given sign, normalized;
\* without digits to copy and with malloc(0) = NULL the copy has no buffer
int_copy(src, neg) ==
  IF Len(src.digits) = 0 /\ ~mallocZero THEN Empty(src.base)
  ELSE normalize(Number(src.base, src.digits, neg, 0, 0))

\* r with the sign of its numerator flipped when negative is set
flip_sign(r, negative) ==
  IF negative THEN [r EXCEPT !.num.neg = ~r.num.neg] ELSE r

rational_make_from_ints(num, den) ==
  IF ~num.alloc \/ ~den.alloc \/ num.base # den.base THEN default_rational
  ELSE IF num.dec # 0 \/ den.dec # 0 \/ num.rep # 0 \/ den.rep # 0 THEN default_rational
  ELSE IF AllZero(den.digits) THEN default_rational
  ELSE IF Len(num.digits) = 0 /\ ~mallocZero THEN Rational(Empty(num.base), One(10))
  \* the sign of the denominator is moved onto the numerator
  ELSE flip_sign(Rational(int_copy(num, num.neg), int_copy(den, FALSE)), den.neg)

\* the quotients replace numerator and denominator, a negative denominator
\* gives its sign to the numerator, both are normalized;
\* [num, den, overflow, hangs]
normalize_quotients(qn, qd, g) ==
  [num |-> normalize(IF qd.quotient.neg THEN [qn.quotient EXCEPT !.neg = ~qn.quotient.neg]
                     ELSE qn.quotient),
   den |-> normalize([qd.quotient EXCEPT !.neg = FALSE]),
   overflow |-> g.overflow \/ qn.overflow \/ qd.overflow,
   hangs |-> FALSE]

\* numerator and denominator are divided by their gcd g
normalize_divide(r, g) ==
  IF g.hangs THEN [num |-> r.num, den |-> r.den, overflow |-> g.overflow, hangs |-> TRUE]
  ELSE normalize_quotients(number_int_divmod_abs(r.num, g.value),
                           number_int_divmod_abs(r.den, g.value), g)

\* rational_normalize(&r): [num, den, overflow, hangs], the components
\* afterwards, whether a division wrote past its remainder buffer, and
\* whether the gcd loop never ends
rational_normalize(r) ==
  IF ~r.num.alloc \/ ~r.den.alloc
  THEN [num |-> r.num, den |-> r.den, overflow |-> FALSE, hangs |-> FALSE]
  ELSE IF r.num.dec # 0 \/ r.den.dec # 0 \/ r.num.rep # 0 \/ r.den.rep # 0
  THEN [num |-> r.num, den |-> r.den, overflow |-> FALSE, hangs |-> FALSE]
  ELSE IF AllZero(r.num.digits)
  THEN [num |-> Zero(r.num.base), den |-> One(r.num.base),
        overflow |-> FALSE, hangs |-> FALSE]
  ELSE normalize_divide(r, number_int_gcd_abs([r.num EXCEPT !.neg = FALSE], r.den))

\* the sum of the two scaled numerators, with their signs, over den_prod
add_scaled(n1_abs, n1_negative, n2_abs, n2_negative, den_prod) ==
  rational_make_from_ints(number_add([n1_abs EXCEPT !.neg = n1_negative],
                                     [n2_abs EXCEPT !.neg = n2_negative], 0),
                          den_prod)

\* rational_add before its final rational_normalize
rational_add_unnormalized(x, y) ==
  IF ~x.num.alloc \/ ~y.num.alloc \/ ~x.den.alloc \/ ~y.den.alloc THEN default_rational
  ELSE IF x.num.base # y.num.base \/ x.den.base # y.den.base \/ x.num.base # x.den.base
  THEN default_rational
  ELSE IF x.num.dec # 0 \/ x.den.dec # 0 \/ y.num.dec # 0 \/ y.den.dec # 0
          \/ x.num.rep # 0 \/ x.den.rep # 0 \/ y.num.rep # 0 \/ y.den.rep # 0
  THEN default_rational
  ELSE add_scaled(number_int_mul_abs(x.num, y.den), x.num.neg,
                  number_int_mul_abs(y.num, x.den), y.num.neg,
                  number_int_mul_abs(x.den, y.den))

\* the early returns of rational_add come back without rational_normalize
rational_add_rejects(x, y) ==
  \/ ~x.num.alloc \/ ~y.num.alloc \/ ~x.den.alloc \/ ~y.den.alloc
  \/ x.num.base # y.num.base \/ x.den.base # y.den.base \/ x.num.base # x.den.base
  \/ x.num.dec # 0 \/ x.den.dec # 0 \/ y.num.dec # 0 \/ y.den.dec # 0
  \/ x.num.rep # 0 \/ x.den.rep # 0 \/ y.num.rep # 0 \/ y.den.rep # 0

unnormalized(r) == [num |-> r.num, den |-> r.den, overflow |-> FALSE, hangs |-> FALSE]

rational_add(x, y) ==
  IF rational_add_rejects(x, y) THEN unnormalized(default_rational)
  ELSE rational_normalize(rational_add_unnormalized(x, y))

\* base as a one-digit integer: the digit is the base itself
base_num(base) == Number(base, <<base>>, FALSE, 0, 0)

\* base^k by k multiplications of 1 by base_num
RECURSIVE pow_base(_, _, _)
pow_base(base, k, acc) ==
  IF k = 0 THEN acc
  ELSE pow_base(base, k - 1, number_int_mul_abs(acc, normalize(base_num(base))))

rational_from_terminating_number(x) ==
  IF ~x.alloc THEN unnormalized(default_rational)
  ELSE IF x.rep # 0 THEN unnormalized(default_rational)
  ELSE IF Len(x.digits) = 0 /\ ~mallocZero
  THEN unnormalized(Rational(Empty(x.base), One(10)))
  ELSE rational_normalize(
         Rational(normalize(Number(x.base, x.digits, x.neg, 0, 0)),
                  IF x.dec = 0 THEN One(x.base) ELSE pow_base(x.base, x.dec, One(x.base))))

\* num = N - M over den = base^nonrep_len * (base^rep_len - 1), made a
\* rational, given the sign of x and normalized
repeating_fraction(M, N, base, nonrep_len, rep_len, negative) ==
  rational_normalize(
    flip_sign(
      rational_make_from_ints(
        number_int_sub_abs(N, M, FALSE),
        number_int_mul_abs(pow_base(base, nonrep_len, One(base)),
                           number_int_sub_abs(pow_base(base, rep_len, One(base)),
                                              One(base), FALSE))),
      negative))

rational_from_repeating_number(x) ==
  IF ~x.alloc THEN unnormalized(default_rational)
  ELSE IF x.rep = 0 THEN unnormalized(default_rational)
  ELSE IF x.dec < x.rep THEN unnormalized(default_rational)
  ELSE IF Len(x.digits) - x.rep = 0 /\ ~mallocZero THEN unnormalized(default_rational)
  ELSE repeating_fraction(
         normalize(Number(x.base, SubSeq(x.digits, 1, Len(x.digits) - x.rep), FALSE, 0, 0)),
         normalize(Number(x.base, x.digits, FALSE, 0, 0)),
         x.base, x.dec - x.rep, x.rep, x.neg)

(* ----------------- glyphs, display_number and the parser -------------- *)

\* the glyphs of the digit values 0..35, as value_to_glyph prints them, and
\* the lower-case letters glyph_to_value accepts as well
UpperGlyphs ==
  <<"0", "1", "2", "3", "4", "5", "6", "7", "8", "9", "A", "B", "C", "D", "E", "F",
    "G", "H", "I", "J", "K", "L", "M", "N", "O", "P", "Q", "R", "S", "T", "U", "V",
    "W", "X", "Y", "Z">>

LowerGlyphs ==
  <<"0", "1", "2", "3", "4", "5", "6", "7", "8", "9", "a", "b", "c", "d", "e", "f",
    "g", "h", "i", "j", "k", "l", "m", "n", "o", "p", "q", "r", "s", "t", "u", "v",
    "w", "x", "y", "z">>

INVALID_VALUE == 255

\* the byte 255 as a character: no glyph
INVALID_GLYPH == "INVALID_GLYPH"

MAX_EXT_DIGITS == 36

value_to_glyph(value) ==
  IF value < MAX_EXT_DIGITS THEN UpperGlyphs[value + 1] ELSE INVALID_GLYPH

glyph_to_value(glyph) ==
  IF \E v \in 1..Len(UpperGlyphs) : UpperGlyphs[v] = glyph
  THEN (CHOOSE v \in 1..Len(UpperGlyphs) : UpperGlyphs[v] = glyph) - 1
  ELSE IF \E v \in 1..Len(LowerGlyphs) : LowerGlyphs[v] = glyph
  THEN (CHOOSE v \in 1..Len(LowerGlyphs) : LowerGlyphs[v] = glyph) - 1
  ELSE INVALID_VALUE

\* the characters display_number prints for the digit at index i (from 0):
\* the point and the opening parenthesis in front of it where they belong
RECURSIVE display_digits(_, _)
display_digits(num, i) ==
  IF i >= Len(num.digits) THEN << >>
  ELSE (IF num.dec > 0 /\ i = Len(num.digits) - num.dec THEN <<".">> ELSE << >>)
       \o (IF num.rep > 0 /\ i = Len(num.digits) - num.rep THEN <<"(">> ELSE << >>)
       \o (IF value_to_glyph(num.digits[i + 1]) # INVALID_GLYPH
           THEN <<value_to_glyph(num.digits[i + 1])>> ELSE <<"?">>)
       \o display_digits(num, i + 1)

\* display_number that prints no sign
display_number_unsigned(num) ==
  IF ~num.alloc \/ Len(num.digits) = 0 THEN <<"<<NaN>>">>
  ELSE display_digits(num, 0) \o (IF num.rep > 0 THEN <<")">> ELSE << >>)

\* the line display_number prints, as a sequence of characters, without
\* the base# prefix and the newline
display_number(num) ==
  IF ~num.alloc \/ Len(num.digits) = 0 THEN <<"<<NaN>>">>
  ELSE (IF num.neg THEN <<"-">> ELSE << >>)
       \o display_digits(num, 0)
       \o (IF num.rep > 0 THEN <<")">> ELSE << >>)

\* the counters and flags of the first pass of
\* initialize_number_from_string; rejected is set where the code returns
\* allocate_number_array(base, 0)
first_pass_start ==
  [length_digits |-> 0, seen_negative |-> FALSE, seen_decimal |-> FALSE,
   digits_after_decimal |-> 0, digits_in_repeating |-> 0, paren_depth |-> 0,
   in_repeating |-> FALSE, closed_repeating |-> FALSE, rejected |-> FALSE]

reject(st) == [st EXCEPT !.rejected = TRUE]

\* ch == '-' at index i
first_pass_minus(st, i) ==
  IF i # 0 THEN reject(st)
  ELSE IF st.seen_negative THEN reject(st)
  ELSE [st EXCEPT !.seen_negative = TRUE]

\* first_pass_point without the test for a digit before the point
first_pass_point_unguarded(st) ==
  IF st.seen_decimal THEN reject(st)
  ELSE [st EXCEPT !.seen_decimal = TRUE]

\* ch == '.'
first_pass_point(st) ==
  IF st.seen_decimal THEN reject(st)
  ELSE IF st.length_digits = 0 THEN reject(st)
  ELSE [st EXCEPT !.seen_decimal = TRUE]

\* ch == '('
first_pass_open(st) ==
  IF st.paren_depth + 1 > 1 THEN reject(st)
  ELSE IF ~st.seen_decimal THEN reject(st)
  ELSE IF st.closed_repeating THEN reject(st)
  ELSE [st EXCEPT !.paren_depth = st.paren_depth + 1,
                  !.in_repeating = TRUE,
                  !.digits_in_repeating = 0]

\* ch == ')'
first_pass_close(st) ==
  IF st.paren_depth - 1 < 0 THEN reject(st)
  ELSE IF st.digits_in_repeating = 0 THEN reject(st)
  ELSE [st EXCEPT !.paren_depth = st.paren_depth - 1,
                  !.in_repeating = FALSE,
                  !.closed_repeating = TRUE]

\* first_pass_glyph without the test for a closed repeating section
first_pass_glyph_after_close(st, value, base) ==
  IF value # INVALID_VALUE /\ value < base
  THEN [st EXCEPT !.length_digits = st.length_digits + 1,
                  !.digits_after_decimal =
                     IF st.seen_decimal THEN st.digits_after_decimal + 1
                     ELSE st.digits_after_decimal,
                  !.digits_in_repeating =
                     IF st.in_repeating THEN st.digits_in_repeating + 1
                     ELSE st.digits_in_repeating]
  ELSE reject(st)

\* any other character, value its glyph_to_value
first_pass_glyph(st, value, base) ==
  IF st.closed_repeating THEN reject(st)
  ELSE IF value # INVALID_VALUE /\ value < base
  THEN [st EXCEPT !.length_digits = st.length_digits + 1,
                  !.digits_after_decimal =
                     IF st.seen_decimal THEN st.digits_after_decimal + 1
                     ELSE st.digits_after_decimal,
                  !.digits_in_repeating =
                     IF st.in_repeating THEN st.digits_in_repeating + 1
                     ELSE st.digits_in_repeating]
  ELSE reject(st)

first_pass_char(st, ch, i, base) ==
  IF ch = "-" THEN first_pass_minus(st, i)
  ELSE IF ch = "." THEN first_pass_point(st)
  ELSE IF ch = "(" THEN first_pass_open(st)
  ELSE IF ch = ")" THEN first_pass_close(st)
  ELSE first_pass_glyph(st, glyph_to_value(ch), base)

\* the first pass from index i on; it stops at the first rejection
RECURSIVE first_pass(_, _, _, _)
first_pass(str, base, i, st) ==
  IF st.rejected \/ i >= Len(str) THEN st
  ELSE first_pass(str, base, i + 1, first_pass_char(st, str[i + 1], i, base))

\* the checks after the first pass
first_pass_accepts(st) ==
  /\ ~st.rejected
  /\ st.paren_depth = 0
  /\ ~(st.seen_decimal /\ st.digits_after_decimal = 0)
  /\ st.length_digits # 0

\* one character of the second pass; num is the Number being filled,
\* in_repeating the flag in_repeating_second_pass
second_pass_char(num, in_repeating, ch, base, length_digits) ==
  IF ch = "-" THEN [num |-> [num EXCEPT !.neg = TRUE], in_repeating |-> in_repeating]
  ELSE IF ch = "."
  THEN [num |-> [num EXCEPT !.dec = length_digits - Len(num.digits)],
        in_repeating |-> in_repeating]
  ELSE IF ch = "(" THEN [num |-> num, in_repeating |-> TRUE]
  ELSE IF ch = ")" THEN [num |-> num, in_repeating |-> FALSE]
  ELSE IF glyph_to_value(ch) # INVALID_VALUE /\ glyph_to_value(ch) < base
  THEN [num |-> [num EXCEPT !.digits = Append(num.digits, glyph_to_value(ch)),
                            !.rep = IF in_repeating THEN num.rep + 1 ELSE num.rep],
        in_repeating |-> in_repeating]
  ELSE [num |-> num, in_repeating |-> in_repeating]

RECURSIVE second_pass(_, _, _, _, _)
second_pass(str, base, length_digits, i, t) ==
  IF i >= Len(str) THEN t.num
  ELSE second_pass(str, base, length_digits, i + 1,
                   second_pass_char(t.num, t.in_repeating, str[i + 1], base,
                                    length_digits))

\* the Number of length_digits digits filled by the second pass, normalized
parse_accepted(str, base, length_digits) ==
  normalize(second_pass(str, base, length_digits, 0,
                        [num |-> Number(base, << >>, FALSE, 0, 0),
                         in_repeating |-> FALSE]))

parse_checked(str, base, st) ==
  IF first_pass_accepts(st) THEN parse_accepted(str, base, st.length_digits)
  ELSE Empty(base)

\* initialize_number_from_string(str, base), str a sequence of characters
initialize_number_from_string(str, base) ==
  parse_checked(str, base, first_pass(str, base, 0, first_pass_start))

\* the Number as the second pass filled it, which initialize_number_from_string
\* hands to normalize_number; without digits where the text is rejected
parse_filled(str, base, st) ==
  IF first_pass_accepts(st)
  THEN second_pass(str, base, st.length_digits, 0,
                   [num |-> Number(base, << >>, FALSE, 0, 0), in_repeating |-> FALSE])
  ELSE Invalid(base, FALSE)

parsed_digits(str, base) ==
  parse_filled(str, base, first_pass(str, base, 0, first_pass_start))

(* ----------------------------- operand sets --------------------------- *)

DigitSeqs(base, len) == [1..len -> 0..(base - 1)]

\* every number_t within the data-model bounds: digits in [0, base),
\* 0 <= rep <= dec <= length, either sign
ModelNumbers(base, maxLen) ==
  { Number(base, ds, ng, d, r) :
      ds \in UNION { DigitSeqs(base, l) : l \in 1..maxLen },
      ng \in BOOLEAN, d \in 0..maxLen, r \in 0..maxLen }

InBounds(n) == n.rep <= n.dec /\ n.dec <= Len(n.digits)

(* ------------------- the canonicalizer, applied twice ----------------- *)

InitNorm ==
  /\ pc = "ready"
  /\ op = "none"
  /\ mallocZero \in BOOLEAN
  /\ \E base \in Bases :
       /\ a \in { n \in ModelNumbers(base, MaxLen) : InBounds(n) }
                 \cup { Empty(base) }
       /\ b = Empty(10)
       /\ res = Empty(10)
       /\ res2 = Empty(10)

\* normalize_number(&a); where it reads outside the buffer the read returns
\* any byte, or the access is trapped
Normalize ==
  /\ pc = "ready"
  /\ op' = "normalize"
  /\ \/ /\ \E g \in (IF normalize_underflows(a) THEN HeapBytes ELSE {0}) :
             res' = normalize_number(a, g)
        /\ pc' = "normalized"
     \/ /\ normalize_underflows(a)
        /\ pc' = "fault"
        /\ UNCHANGED res
  /\ UNCHANGED <<a, b, res2, mallocZero>>

\* normalize_number(&res), a second time on the same number
NormalizeAgain ==
  /\ pc = "normalized"
  /\ \/ /\ \E g \in (IF normalize_underflows(res) THEN HeapBytes ELSE {0}) :
             res2' = normalize_number(res, g)
        /\ pc' = "renormalized"
     \/ /\ normalize_underflows(res)
        /\ pc' = "fault"
        /\ UNCHANGED res2
  /\ UNCHANGED <<op, a, b, res, mallocZero>>

NextNorm == Normalize \/ NormalizeAgain

SpecNorm == InitNorm /\ [][NextNorm]_vars

(* ------------------- properties of the canonicalizer ------------------ *)

IntDigits(n) == SubSeq(n.digits, 1, Len(n.digits) - n.dec)

FracDigits(n) == SubSeq(n.digits, Len(n.digits) - n.dec + 1, Len(n.digits))

RepeatingWindow(n) == SubSeq(n.digits, Len(n.digits) - n.rep + 1, Len(n.digits))

\* s is t with leading zeros removed
IsZeroStripped(s, t) ==
  /\ Len(s) <= Len(t)
  /\ s = SubSeq(t, Len(t) - Len(s) + 1, Len(t))
  /\ \A i \in 1..(Len(t) - Len(s)) : t[i] = 0

\* C4: normalize is idempotent: for every Number within the data-model
\* bounds (digits in [0, base), 0 <= rep <= dec <= length), a second
\* normalize changes no field and no digit of the first one's result.
C4_NormalizeIdempotent ==
  pc = "renormalized" => res2 = res

\* C5: zero canonical form: a Number whose digits are all 0 (any length
\* >= 1, any sign, any 0 <= rep <= dec <= length) normalizes to digits = [0],
\* length 1, dec = 0, rep = 0, not negative.
C5_ZeroCanonical ==
  (pc = "normalized" /\ IsValid(a) /\ AllZero(a.digits)) => res = Zero(a.base)

\* C6: repeating-block preservation: when the repeating window holds a
\* non-zero digit, normalize leaves rep and every fractional digit as they
\* were and removes nothing but leading zeros of the integer part.
C6_RepeatingPreserved ==
  (pc = "normalized" /\ IsValid(a) /\ a.rep > 0 /\ ~AllZero(RepeatingWindow(a)))
    => /\ res.rep = a.rep
       /\ res.dec = a.dec
       /\ FracDigits(res) = FracDigits(a)
       /\ IsZeroStripped(IntDigits(res), IntDigits(a))
       /\ res.neg = a.neg

(* --------------------------- the signed adder ------------------------- *)

\* the canonical form of the data model, for a number with an integer
\* digit: digits in [0, base), 0 <= rep <= dec < length, no leading zero in
\* the integer part unless it is the single digit 0, no trailing zero in a
\* fraction that does not repeat, no all-zero repeating window, and no
\* negative zero
IsCanonical(n) ==
  /\ IsValid(n)
  /\ \A i \in 1..Len(n.digits) : n.digits[i] \in 0..(n.base - 1)
  /\ n.rep <= n.dec /\ n.dec < Len(n.digits)
  /\ (Len(n.digits) - n.dec > 1 => n.digits[1] # 0)
  /\ (n.dec > 0 /\ n.rep = 0 => n.digits[Len(n.digits)] # 0)
  /\ (n.rep > 0 => ~AllZero(RepeatingWindow(n)))
  /\ (AllZero(n.digits) => ~n.neg)

IsTerminating(n) == n.rep = 0

CanonicalTerminating(base, maxLen) ==
  { n \in ModelNumbers(base, maxLen) : IsCanonical(n) /\ IsTerminating(n) }

\* operands of the rejected cases: any number within the data-model bounds
\* (repeating or not, canonical or not) and the empty number, with and
\* without a digit buffer
AnyOperands(maxLen) ==
  UNION { { n \in ModelNumbers(base, maxLen) : InBounds(n) }
          \cup { Invalid(base, TRUE), Invalid(base, FALSE) } : base \in Bases }

\* a with is_negative flipped
negate(n) == [n EXCEPT !.neg = ~n.neg]

InitAdd ==
  /\ pc = "ready"
  /\ op = "none"
  /\ \/ /\ mallocZero = TRUE
        /\ \E base \in Bases :
             /\ a \in CanonicalTerminating(base, MaxLen)
             /\ b \in CanonicalTerminating(base, MaxLenB)
     \/ /\ mallocZero \in BOOLEAN
        /\ LET operands == AnyOperands(MaxErrLen)
           IN a \in operands /\ b \in operands
  /\ res = Invalid(10, FALSE)
  /\ res2 = Invalid(10, FALSE)

\* sum = number_add(&a, &b), as the command loop calls it
NumberAdd ==
  /\ pc = "ready"
  /\ op' = "add"
  /\ \/ /\ \E g \in (IF number_add_underflows(a, b) THEN HeapBytes ELSE {0}) :
             res' = number_add(a, b, g)
        /\ pc' = "added"
     \/ /\ number_add_underflows(a, b)
        /\ pc' = "fault"
        /\ UNCHANGED res
  /\ UNCHANGED <<a, b, res2, mallocZero>>

\* number_add(&a, &b) with b a copy of a whose sign is flipped; the operands
\* then differ in sign and compare equal, or are rejected, and number_add
\* returns without a call of normalize_number
AddInverse ==
  /\ pc = "ready"
  /\ op' = "inverse"
  /\ b' = negate(a)
  /\ res' = number_add(a, negate(a), 0)
  /\ pc' = "added"
  /\ UNCHANGED <<a, res2, mallocZero>>

NextAdd == NumberAdd \/ AddInverse

SpecAdd == InitAdd /\ [][NextAdd]_vars

(* ------------------------ properties of number_add -------------------- *)

RECURSIVE Pow(_, _)
Pow(base, e) == IF e = 0 THEN 1 ELSE base * Pow(base, e - 1)

RECURSIVE IntVal(_, _)
IntVal(digits, base) ==
  IF Len(digits) = 0 THEN 0
  ELSE IntVal(SubSeq(digits, 1, Len(digits) - 1), base) * base + digits[Len(digits)]

\* value(n) * base^scale, an integer when scale >= n.dec
ScaledValue(n, scale) ==
  (IF n.neg THEN -1 ELSE 1) * IntVal(n.digits, n.base) * Pow(n.base, scale - n.dec)

CanonicalOperands ==
  /\ IsCanonical(a) /\ IsTerminating(a)
  /\ IsCanonical(b) /\ IsTerminating(b)
  /\ a.base = b.base

\* C1: for canonical terminating same-base a and b (any signs, any
\* decimal lengths) number_add(a, b) is the Number whose value is
\* value(a) + value(b).
C1_AddExact ==
  (pc = "added" /\ op = "add" /\ CanonicalOperands)
    => /\ IsValid(res) /\ res.base = a.base /\ res.rep = 0 /\ res.dec <= Len(res.digits)
       /\ LET s == Max(Max(a.dec, b.dec), res.dec)
          IN ScaledValue(res, s) = ScaledValue(a, s) + ScaledValue(b, s)

C3_AdditiveInverse ==
  (pc = "added" /\ op = "inverse" /\ IsCanonical(a) /\ IsTerminating(a))
    => res = Zero(a.base)

C3_Witness ==
  /\ pc = "added" /\ op = "inverse" /\ IsCanonical(a) /\ IsTerminating(a)
  /\ a.neg /\ a.dec > 0 /\ Len(a.digits) = MaxLen
  /\ b = negate(a) /\ res = Zero(a.base)

\* C7: every valid Number that number_add returns on canonical terminating
\* operands is canonical: digits in [0, base), no leading zero in the integer
\* part unless it is the single digit 0, no trailing zero in the fraction,
\* rep = 0, 0 <= dec < length, and not negative when the magnitude is zero.
C7_SumCanonical ==
  (pc = "added" /\ op = "add" /\ CanonicalOperands /\ IsValid(res))
    => IsCanonical(res) /\ IsTerminating(res)

C7_Witness ==
  /\ pc = "added" /\ op = "add" /\ CanonicalOperands /\ IsValid(res)
  /\ a.dec > 0 /\ b.dec > 0 /\ res.dec < Max(a.dec, b.dec)
  /\ Len(res.digits) - res.dec > Max(Len(a.digits) - a.dec, Len(b.digits) - b.dec)

\* C8: number_add returns the invalid Number (length 0) whenever the
\* operands have different bases, or an operand is empty (length 0 or no
\* digit buffer), or an operand has rep # 0.
C8_AddRejects ==
  (pc = "added" /\ op = "add"
     /\ (a.base # b.base \/ ~IsValid(a) \/ ~IsValid(b) \/ a.rep # 0 \/ b.rep # 0))
    => Len(res.digits) = 0

C8_Witness ==
  /\ pc = "added" /\ op = "add"
  /\ IsValid(a) /\ IsValid(b) /\ a.base = b.base
  /\ a.rep = 0 /\ b.rep # 0 /\ ~AllZero(b.digits)
  /\ Len(res.digits) = 0

(* --------------------- specification: integer division ---------------- *)

\* integer-only operands as callers can hand them over: any digit string,
\* leading zeros and the all-zero strings included, with either sign
IntOperands(base, maxLen) ==
  { Number(base, ds, neg, 0, 0) :
      ds \in UNION { DigitSeqs(base, len) : len \in 1..maxLen }, neg \in BOOLEAN }

\* a remainder buffer after a write past its end damaged the heap: some
\* digit string, no longer the one the algorithm computed
CorruptRemainders(base) ==
  { Number(base, ds, FALSE, 0, 0) :
      ds \in UNION { DigitSeqs(base, len) : len \in 1..MaxLenB } }

InitDiv ==
  /\ pc = "ready"
  /\ op = "none"
  /\ mallocZero \in BOOLEAN
  /\ \E base \in Bases :
       /\ a \in IntOperands(base, MaxLen)
       /\ b \in IntOperands(base, MaxLenB)
  /\ res = Invalid(10, FALSE)
  /\ res2 = Invalid(10, FALSE)

\* an operand after a write past the end of a remainder buffer landed in
\* the block that follows it, the operand's digit buffer: its first digit
\* is another one
DamagedOperands(n) ==
  { [n EXCEPT !.digits[1] = d] : d \in (0..(n.base - 1)) \ {n.digits[1]} }

\* number_int_divmod_abs(a, b, &res, &res2).  A write past the end of the
\* remainder buffer is undefined: it lands in allocator slack and the
\* division goes on, or it damages the heap and the remainder read back is
\* not the one written, or it lands in the digits of an operand (the call
\* returns, pc "damaged"), or the run is stopped.
DivModOutcome(r) ==
  \/ /\ res' = r.quotient
     /\ res2' = r.remainder
     /\ pc' = "divided"
     /\ UNCHANGED <<a, b>>
  \/ /\ r.overflow
     /\ res' = r.quotient
     /\ res2' \in CorruptRemainders(a.base) \ {r.remainder}
     /\ pc' = "divided"
     /\ UNCHANGED <<a, b>>
  \/ /\ r.overflow
     /\ res' = r.quotient
     /\ res2' = r.remainder
     /\ pc' = "damaged"
     /\ \/ a' \in DamagedOperands(a) /\ b' = b
        \/ b' \in DamagedOperands(b) /\ a' = a
  \/ /\ r.overflow
     /\ pc' = "fault"
     /\ UNCHANGED <<a, b, res, res2>>

\* the call, with the outcomes of what it computed
IntDivMod ==
  /\ pc = "ready"
  /\ op' = "divmod"
  /\ DivModOutcome(number_int_divmod_abs(a, b))
  /\ UNCHANGED mallocZero

NextDiv == IntDivMod

SpecDiv == InitDiv /\ [][NextDiv]_vars

(* ----------------------- properties of the division ------------------- *)

IsInteger(n) == n.dec = 0 /\ n.rep = 0

\* the magnitude of an integer-only Number
Magnitude(n) == IntVal(n.digits, n.base)

DivOperands ==
  /\ op = "divmod"
  /\ IsCanonical(a) /\ IsCanonical(b)
  /\ IsInteger(a) /\ IsInteger(b)
  /\ a.base = b.base

\* C9: for canonical integer-only operands n, d of one base with d # 0 the
\* division yields canonical non-negative integers q, r of that base with
\* n = q * d + r and 0 <= r < d (values taken as magnitudes, the division
\* being one of absolute values); n < d gives q = 0 and r = n.
C9_DivModEuclidean ==
  (DivOperands /\ pc # "ready" /\ Magnitude(b) # 0) =>
    /\ pc = "divided"
    /\ IsCanonical(res) /\ IsCanonical(res2)
    /\ IsInteger(res) /\ IsInteger(res2)
    /\ ~res.neg /\ ~res2.neg
    /\ res.base = a.base /\ res2.base = a.base
    /\ Magnitude(a) = Magnitude(res) * Magnitude(b) + Magnitude(res2)
    /\ Magnitude(res2) < Magnitude(b)
    /\ (Magnitude(a) < Magnitude(b) =>
          res = Zero(a.base) /\ Magnitude(res2) = Magnitude(a))

\* C10: a denominator whose digits are all zero leaves both outputs
\* without digits (length 0)
C10_DivByZeroRejected ==
  (op = "divmod" /\ pc = "divided" /\ IsValid(a) /\ IsValid(b)
     /\ IsInteger(a) /\ IsInteger(b) /\ a.base = b.base /\ AllZero(b.digits)) =>
    Len(res.digits) = 0 /\ Len(res2.digits) = 0

C10_Witness ==
  /\ op = "divmod" /\ pc = "divided"
  /\ IsInteger(a) /\ IsInteger(b) /\ a.base = b.base
  /\ ~AllZero(a.digits)
  /\ Len(b.digits) = MaxLenB /\ AllZero(b.digits)
  /\ Len(res.digits) = 0 /\ Len(res2.digits) = 0

(* ------------------ specification: the integer engine ----------------- *)

\* the results a caller can see when a division inside the gcd loop wrote
\* past its remainder buffer and the heap was damaged
CorruptIntegers(base) == CorruptRemainders(base)

InitInt ==
  /\ pc = "ready"
  /\ op = "none"
  /\ \/ /\ mallocZero = TRUE
        /\ \E base \in Bases :
             /\ a \in IntOperands(base, MaxLen)
             /\ b \in IntOperands(base, MaxLenB)
     \/ /\ mallocZero \in BOOLEAN
        /\ LET operands == AnyOperands(MaxErrLen)
           IN a \in operands /\ b \in operands
  /\ res = Invalid(10, FALSE)
  /\ res2 = Invalid(10, FALSE)

\* res = number_int_add_abs(&a, &b)
IntAddAbs ==
  /\ pc = "ready"
  /\ op' = "int_add"
  /\ res' = number_int_add_abs(a, b)
  /\ pc' = "returned"
  /\ UNCHANGED <<a, b, res2, mallocZero>>

\* res = number_int_sub_abs(&a, &b, negative_result)
IntSubAbs ==
  /\ pc = "ready"
  /\ \E negative_result \in BOOLEAN :
       /\ op' = (IF negative_result THEN "int_sub_negative" ELSE "int_sub")
       /\ res' = number_int_sub_abs(a, b, negative_result)
  /\ pc' = "returned"
  /\ UNCHANGED <<a, b, res2, mallocZero>>

\* res = number_int_mul_abs(&a, &b)
IntMulAbs ==
  /\ pc = "ready"
  /\ op' = "int_mul"
  /\ res' = number_int_mul_abs(a, b)
  /\ pc' = "returned"
  /\ UNCHANGED <<a, b, res2, mallocZero>>

\* res = number_int_gcd_abs(&a, &b).  The loop may never end; a write past
\* a remainder buffer on the way is undefined (absorbed, damaging the
\* result or an operand, or fatal).
GcdOutcome(g) ==
  \/ /\ ~g.hangs
     /\ res' = g.value
     /\ pc' = "returned"
     /\ UNCHANGED <<a, b>>
  \/ /\ ~g.hangs /\ g.overflow
     /\ res' \in CorruptIntegers(a.base) \ {g.value}
     /\ pc' = "returned"
     /\ UNCHANGED <<a, b>>
  \/ /\ ~g.hangs /\ g.overflow
     /\ res' = g.value
     /\ pc' = "damaged"
     /\ \/ a' \in DamagedOperands(a) /\ b' = b
        \/ b' \in DamagedOperands(b) /\ a' = a
  \/ /\ g.overflow
     /\ pc' = "fault"
     /\ UNCHANGED <<a, b, res>>
  \/ /\ g.hangs
     /\ pc' = "hung"
     /\ UNCHANGED <<a, b, res>>

\* the call, with the outcomes of what it computed
IntGcd ==
  /\ pc = "ready"
  /\ op' = "int_gcd"
  /\ GcdOutcome(number_int_gcd_abs(a, b))
  /\ UNCHANGED <<res2, mallocZero>>

NextInt == IntAddAbs \/ IntSubAbs \/ IntMulAbs \/ IntGcd \/ IntDivMod

SpecInt == InitInt /\ [][NextInt]_vars

(* -------------------- properties of the integer engine ---------------- *)

IntegerOperands ==
  /\ IsValid(a) /\ IsValid(b)
  /\ IsInteger(a) /\ IsInteger(b)
  /\ a.base = b.base

\* a canonical non-negative integer of the operands' base
IsCanonicalNatural(n) ==
  IsCanonical(n) /\ IsInteger(n) /\ ~n.neg /\ n.base = a.base

Divides(d, n) == IF d = 0 THEN n = 0 ELSE n % d = 0

\* g is the greatest common divisor of m and n: a common divisor that every
\* common divisor divides
IsGcd(g, m, n) ==
  /\ Divides(g, m) /\ Divides(g, n)
  /\ \A d \in 1..(Max(m, n) + g + 1) : (Divides(d, m) /\ Divides(d, n)) => Divides(d, g)

\* C11: for canonical integer-only operands a, b of one base the gcd
\* operation returns the canonical non-negative integer g that divides |a|
\* and |b| and is divided by every common divisor; gcd(a, 0) = |a| and
\* gcd(0, b) = |b|.
C11_GcdIsGreatestCommonDivisor ==
  (op = "int_gcd" /\ pc # "ready" /\ IntegerOperands
     /\ IsCanonical(a) /\ IsCanonical(b)) =>
    /\ pc = "returned"
    /\ IsCanonicalNatural(res)
    /\ IsGcd(Magnitude(res), Magnitude(a), Magnitude(b))
    /\ (Magnitude(b) = 0 => Magnitude(res) = Magnitude(a))
    /\ (Magnitude(a) = 0 => Magnitude(res) = Magnitude(b))

\* C12: for integer-only operands of one base number_int_mul_abs returns
\* the canonical non-negative integer |a| * |b|, whatever the operands'
\* signs, and the canonical zero when an operand is zero.
C12_MulAbsExact ==
  (op = "int_mul" /\ pc = "returned" /\ IntegerOperands) =>
    /\ IsCanonicalNatural(res)
    /\ Magnitude(res) = Magnitude(a) * Magnitude(b)
    /\ ((AllZero(a.digits) \/ AllZero(b.digits)) => res = Zero(a.base))

C12_Witness ==
  /\ op = "int_mul" /\ pc = "returned" /\ IntegerOperands
  /\ a.neg /\ ~b.neg
  /\ Len(a.digits) = MaxLen /\ Len(b.digits) = MaxLenB
  /\ Len(res.digits) = MaxLen + MaxLenB
  /\ Magnitude(res) = Magnitude(a) * Magnitude(b)

\* C13: for integer-only operands of one base and any lengths
\* number_int_add_abs returns the canonical integer |a| + |b|, never
\* negative, whatever the operands' signs.
C13_AddAbsExact ==
  (op = "int_add" /\ pc = "returned" /\ IntegerOperands) =>
    /\ IsCanonicalNatural(res)
    /\ Magnitude(res) = Magnitude(a) + Magnitude(b)

C13_Witness ==
  /\ op = "int_add" /\ pc = "returned" /\ IntegerOperands
  /\ a.neg /\ b.neg
  /\ Len(a.digits) = MaxLen /\ Len(b.digits) < MaxLen
  /\ Len(res.digits) = MaxLen + 1
  /\ Magnitude(res) = Magnitude(a) + Magnitude(b)

\* C14: for integer-only operands of one base with |a| >= |b|
\* number_int_sub_abs returns the canonical integer of magnitude |a| - |b|,
\* negative exactly when negative_result is set and the magnitude is not
\* zero.
C14_SubAbsExact ==
  (op \in {"int_sub", "int_sub_negative"} /\ pc = "returned" /\ IntegerOperands
     /\ Magnitude(a) >= Magnitude(b)) =>
    /\ IsCanonical(res) /\ IsInteger(res) /\ res.base = a.base
    /\ Magnitude(res) = Magnitude(a) - Magnitude(b)
    /\ res.neg = (op = "int_sub_negative" /\ Magnitude(res) # 0)

C14_Witness ==
  /\ op = "int_sub_negative" /\ pc = "returned" /\ IntegerOperands
  /\ ~a.neg /\ a.digits[1] # 0 /\ Len(a.digits) = MaxLen
  /\ b.digits[Len(b.digits)] > a.digits[Len(a.digits)]
  /\ Len(res.digits) < Len(a.digits)
  /\ res.neg /\ Magnitude(res) = Magnitude(a) - Magnitude(b)

\* the operands break a precondition of the integer engine: two bases, or
\* fractional or repeating digits
RejectedOperands ==
  /\ IsValid(a) /\ IsValid(b)
  /\ (a.base # b.base \/ ~IsInteger(a) \/ ~IsInteger(b))

\* C20: on operands of different bases, or with fractional or repeating
\* digits, each of number_int_add_abs, number_int_sub_abs,
\* number_int_mul_abs, number_int_divmod_abs and number_int_gcd_abs returns
\* Numbers without digits (length 0, both outputs of the division), never
\* a valid Number such as 0.
C20_EngineRejects ==
  (op \in {"int_add", "int_sub", "int_sub_negative", "int_mul", "int_gcd", "divmod"}
     /\ pc # "ready" /\ RejectedOperands) =>
    /\ pc \in {"returned", "divided"}
    /\ Len(res.digits) = 0
    /\ (op = "divmod" => Len(res2.digits) = 0)

(* ------------------- specification: the rational layer ---------------- *)

\* the canonical integers of up to maxLen digits, of either sign
CanonicalIntegers(base, maxLen) ==
  { n \in IntOperands(base, maxLen) : IsCanonical(n) }

\* numerator and denominator as a caller can pair them: any digit strings
\* of one base, with either sign, the denominator not zero
RawRationals(base, numLen, denLen) ==
  { Rational(n, d) : n \in IntOperands(base, numLen),
                     d \in { e \in IntOperands(base, denLen) : ~AllZero(e.digits) } }

\* the rationals rational_make_from_ints builds from canonical integers and
\* a positive denominator
MadeRationals(base, maxLen) ==
  { Rational(n, d) : n \in CanonicalIntegers(base, maxLen),
                     d \in { e \in CanonicalIntegers(base, maxLen) :
                               ~e.neg /\ ~AllZero(e.digits) } }

\* what a caller can find in a rational after a write past a remainder
\* buffer damaged the heap: one of its components is not the one computed
CorruptRationals(r) ==
  { Rational(n, r.den) : n \in CorruptRemainders(r.den.base) }
    \cup { Rational(r.num, d) : d \in CorruptRemainders(r.num.base) }

InitRat ==
  /\ pc = "ready"
  /\ op = "none"
  /\ mallocZero = TRUE
  /\ \E base \in Bases :
       \/ /\ a \in RawRationals(base, MaxLen, MaxLenB)
          /\ b = Rational(Zero(base), One(base))
       \/ /\ a \in MadeRationals(base, MaxRatLen)
          /\ b \in MadeRationals(base, MaxRatLen)
  /\ res = default_rational
  /\ res2 = Invalid(10, FALSE)

\* the outcomes of an operation of the rational layer that computed t =
\* [num, den, overflow, hangs]: its result; or, after a write past a
\* remainder buffer, a damaged result or a fault
RationalOutcome(t) ==
  \/ /\ ~t.hangs
     /\ res' = Rational(t.num, t.den)
     /\ pc' = "returned"
  \/ /\ ~t.hangs /\ t.overflow
     /\ res' \in CorruptRationals(t) \ {Rational(t.num, t.den)}
     /\ pc' = "returned"
  \/ /\ t.overflow
     /\ pc' = "fault"
     /\ UNCHANGED res

\* rational_normalize(&a), the rational afterwards in res
RationalNormalize ==
  /\ pc = "ready"
  /\ op' = "rational_normalize"
  /\ RationalOutcome(rational_normalize(a))
  /\ UNCHANGED <<a, b, res2, mallocZero>>

\* res = rational_add(&a, &b)
RationalAdd ==
  /\ pc = "ready"
  /\ op' = "rational_add"
  /\ RationalOutcome(rational_add(a, b))
  /\ UNCHANGED <<a, b, res2, mallocZero>>

\* rational_normalize(&a); rational_normalize(&b); res = rational_add(&a, &b)
\* as the rational tests of main do; a and b keep the rationals as made
NormalizedAdd ==
  /\ pc = "ready"
  /\ op' = "normalized_add"
  /\ LET na == rational_normalize(a)
         nb == rational_normalize(b)
         t == rational_add(Rational(na.num, na.den), Rational(nb.num, nb.den))
     IN RationalOutcome([t EXCEPT !.overflow = t.overflow \/ na.overflow \/ nb.overflow,
                                  !.hangs = t.hangs \/ na.hangs \/ nb.hangs])
  /\ UNCHANGED <<a, b, res2, mallocZero>>

NextRat == RationalNormalize \/ RationalAdd \/ NormalizedAdd

SpecRat == InitRat /\ [][NextRat]_vars

(* ------------- specification: conversion of Numbers to rationals ------ *)

InitConv ==
  /\ pc = "ready"
  /\ op = "none"
  /\ mallocZero = TRUE
  /\ \E base \in Bases :
       a \in { n \in ModelNumbers(base, MaxLen) : InBounds(n) /\ n.dec < Len(n.digits) }
  /\ b = Invalid(10, FALSE)
  /\ res = default_rational
  /\ res2 = Invalid(10, FALSE)

\* res = rational_from_terminating_number(&a)
FromTerminating ==
  /\ pc = "ready"
  /\ op' = "from_terminating"
  /\ RationalOutcome(rational_from_terminating_number(a))
  /\ UNCHANGED <<a, b, res2, mallocZero>>

\* res = rational_from_repeating_number(&a)
FromRepeating ==
  /\ pc = "ready"
  /\ op' = "from_repeating"
  /\ RationalOutcome(rational_from_repeating_number(a))
  /\ UNCHANGED <<a, b, res2, mallocZero>>

NextConv == FromTerminating \/ FromRepeating

SpecConv == InitConv /\ [][NextConv]_vars

(* ------------------- properties of the rational layer ----------------- *)

\* the value of an integer-only Number, with its sign
SignedValue(n) == IF n.neg THEN -Magnitude(n) ELSE Magnitude(n)

\* a canonical integer greater than zero
IsPositiveCanonical(n) ==
  IsCanonical(n) /\ IsInteger(n) /\ ~n.neg /\ Magnitude(n) > 0

\* r is in lowest terms: a canonical integer over a positive canonical
\* integer of the same base, with no common divisor but 1
InLowestTerms(r) ==
  /\ IsCanonical(r.num) /\ IsInteger(r.num)
  /\ IsPositiveCanonical(r.den)
  /\ r.num.base = r.den.base
  /\ IsGcd(1, Magnitude(r.num), Magnitude(r.den))

\* the operand of rational_normalize has integer-only components of one
\* base and a denominator that is not zero
NormalizeOperand ==
  /\ IsValid(a.num) /\ IsValid(a.den)
  /\ IsInteger(a.num) /\ IsInteger(a.den)
  /\ a.num.base = a.den.base
  /\ ~AllZero(a.den.digits)

\* C15: after rational_normalize of a rational with integer-only components
\* of one base and a non-zero denominator, the denominator is a strictly
\* positive canonical integer, gcd(|numerator|, denominator) = 1, and a
\* rational whose numerator was zero is exactly 0/1.
C15_NormalizePostcondition ==
  (op = "rational_normalize" /\ pc # "ready" /\ NormalizeOperand) =>
    /\ pc = "returned"
    /\ IsPositiveCanonical(res.den)
    /\ IsValid(res.num) /\ IsInteger(res.num)
    /\ IsGcd(1, Magnitude(res.num), Magnitude(res.den))
    /\ (AllZero(a.num.digits) =>
          res = Rational(Zero(a.num.base), One(a.num.base)))

\* a is the negation of b: the same denominator and numerator digits, a's
\* numerator negative and b's not, as -1/2 and 1/2
OppositeOperands ==
  /\ a.den = b.den
  /\ a.num.digits = b.num.digits
  /\ a.num.neg /\ ~b.num.neg

\* C16: rational_normalize of a rational with a non-zero numerator of either
\* sign and a positive denominator keeps the sign of the numerator and the
\* value, |num_before| * den_after = |num_after| * den_before; and so two
\* opposite rationals built by rational_make_from_ints, each normalized,
\* add up to 0/1.
C16_NormalizePreservesValue ==
  /\ (op = "rational_normalize" /\ pc # "ready" /\ NormalizeOperand
        /\ ~AllZero(a.num.digits) /\ ~a.den.neg) =>
       /\ pc = "returned"
       /\ res.num.neg = a.num.neg
       /\ Magnitude(a.num) * Magnitude(res.den) = Magnitude(res.num) * Magnitude(a.den)
  /\ (op = "normalized_add" /\ pc # "ready" /\ OppositeOperands) =>
       /\ pc = "returned"
       /\ res = Rational(Zero(a.num.base), One(a.num.base))

\* the operands of rational_add are valid rationals of one base:
\* canonical integer numerators of either sign over positive canonical
\* denominators
AddOperands ==
  /\ IsCanonical(a.num) /\ IsInteger(a.num) /\ IsPositiveCanonical(a.den)
  /\ IsCanonical(b.num) /\ IsInteger(b.num) /\ IsPositiveCanonical(b.den)
  /\ a.num.base = a.den.base /\ b.num.base = b.den.base
  /\ a.num.base = b.num.base

\* C17: for valid rationals a, b of one base rational_add returns the
\* rational in lowest terms, with a positive denominator, whose value is
\* a.num/a.den + b.num/b.den, the sign of the sum on the numerator.
C17_RationalAddExact ==
  (op = "rational_add" /\ pc # "ready" /\ AddOperands) =>
    /\ pc = "returned"
    /\ InLowestTerms(res)
    /\ SignedValue(res.num) * Magnitude(a.den) * Magnitude(b.den)
         = (SignedValue(a.num) * Magnitude(b.den) + SignedValue(b.num) * Magnitude(a.den))
             * Magnitude(res.den)

(* --------------------- properties of the conversions ------------------ *)

\* C18: for a canonical Number x without repeating digits
\* rational_from_terminating_number returns the rational in lowest terms
\* equal to (the integer formed by all digits of x) / base^decimalLength,
\* its numerator negative exactly when x is negative and not zero; without
\* fractional digits the denominator is 1.
C18_FromTerminatingExact ==
  (op = "from_terminating" /\ pc # "ready" /\ IsCanonical(a) /\ a.rep = 0) =>
    /\ pc = "returned"
    /\ InLowestTerms(res)
    /\ res.num.base = a.base
    /\ Magnitude(res.num) * Pow(a.base, a.dec) = Magnitude(a) * Magnitude(res.den)
    /\ (res.num.neg <=> (a.neg /\ ~AllZero(a.digits)))
    /\ (a.dec = 0 => res.den = One(a.base))

\* M of the repeating-decimal identity: the value of the digits up to the
\* end of the non-repeating fractional part
NonRepeatingValue(n) == IntVal(SubSeq(n.digits, 1, Len(n.digits) - n.rep), n.base)

\* C19: for a canonical Number x with repeating digits
\* rational_from_repeating_number returns the rational in lowest terms
\* equal to (N - M) / (base^nonrepLen * (base^repeatingLength - 1)), N the
\* value of all digits and M that of the digits before the repeating ones,
\* its numerator negative exactly when x is negative.
C19_FromRepeatingIdentity ==
  (op = "from_repeating" /\ pc # "ready" /\ IsCanonical(a) /\ a.rep > 0) =>
    /\ pc = "returned"
    /\ InLowestTerms(res)
    /\ res.num.base = a.base
    /\ Magnitude(res.num) * Pow(a.base, a.dec - a.rep) * (Pow(a.base, a.rep) - 1)
         = (Magnitude(a) - NonRepeatingValue(a)) * Magnitude(res.den)
    /\ (res.num.neg <=> a.neg)

(* ----------- specification: operations on an invalid operand ---------- *)

\* one operand is what allocate_number_array(base, 0) returns, the Number
\* a failed operation hands back; the other is any Number
InitInvalid ==
  /\ pc = "ready"
  /\ op = "none"
  /\ mallocZero \in BOOLEAN
  /\ \E base \in Bases : \E other \in AnyOperands(MaxLenB) :
       \/ a = Empty(base) /\ b = other
       \/ a = other /\ b = Empty(base)
  /\ res = Invalid(10, FALSE)
  /\ res2 = Invalid(10, FALSE)

NextInvalid ==
  NumberAdd \/ IntAddAbs \/ IntSubAbs \/ IntMulAbs \/ IntDivMod \/ IntGcd

SpecInvalid == InitInvalid /\ [][NextInvalid]_vars

\* C21: when an operand of number_add, number_int_add_abs,
\* number_int_sub_abs, number_int_mul_abs, number_int_divmod_abs or
\* number_int_gcd_abs is the invalid Number (length 0), the call ends and
\* every Number it returns has length 0 again: it neither loops forever nor
\* returns a valid Number.
C21_InvalidPropagates ==
  (pc # "ready" /\ (Len(a.digits) = 0 \/ Len(b.digits) = 0)) =>
    /\ pc \in {"added", "returned", "divided"}
    /\ Len(res.digits) = 0
    /\ (op = "divmod" => Len(res2.digits) = 0)

(* --------------------- specification: compare_abs --------------------- *)

\* the canonical Numbers of up to maxLen digits, repeating or not
CanonicalNumbers(base, maxLen) ==
  { n \in ModelNumbers(base, maxLen) : IsCanonical(n) }

InitCmp ==
  /\ pc = "ready"
  /\ op = "none"
  /\ mallocZero = TRUE
  /\ \E base \in Bases :
       /\ a \in CanonicalNumbers(base, MaxLen)
       /\ b \in CanonicalNumbers(base, MaxLenB)
  /\ res = 0
  /\ res2 = 0

\* res = compare_abs(&a, &b) and res2 = compare_abs(&b, &a)
CompareAbs ==
  /\ pc = "ready"
  /\ op' = "compare"
  /\ res' = compare_abs(a, b)
  /\ res2' = compare_abs(b, a)
  /\ pc' = "compared"
  /\ UNCHANGED <<a, b, mallocZero>>

NextCmp == CompareAbs

SpecCmp == InitCmp /\ [][NextCmp]_vars

\* |value(n)| = AbsNumerator(n) / AbsDenominator(n): all digits over
\* base^decimalLength, and with a repeating block (N - M) over
\* base^nonrepLen * (base^repeatingLength - 1)
AbsNumerator(n) ==
  IF n.rep = 0 THEN Magnitude(n) ELSE Magnitude(n) - NonRepeatingValue(n)

AbsDenominator(n) ==
  IF n.rep = 0 THEN Pow(n.base, n.dec)
  ELSE Pow(n.base, n.dec - n.rep) * (Pow(n.base, n.rep) - 1)

Sign(v) == IF v < 0 THEN -1 ELSE IF v > 0 THEN 1 ELSE 0

\* C22: for canonical Numbers a, b of one base, of any signs and lengths,
\* repeating or not, compare_abs(a, b) is -1, 0 or 1 as |value(a)| is less
\* than, equal to or greater than |value(b)|; compare_abs(a, b) =
\* -compare_abs(b, a), and the signs of the operands do not matter.
C22_CompareAbsOrders ==
  (op = "compare" /\ pc = "compared") =>
    /\ res = Sign(AbsNumerator(a) * AbsDenominator(b) - AbsNumerator(b) * AbsDenominator(a))
    /\ res = -res2
    /\ res = compare_abs(negate(a), b)
    /\ res = compare_abs(a, negate(b))

(* ----------------------- specification: the parser -------------------- *)

\* the characters of the texts: the four marks, a digit of every base
\* explored, and a digit of some of them only
ParseAlphabet == {"-", ".", "(", ")", "1", "2"}

Texts(maxLen) == UNION { [1..n -> ParseAlphabet] : n \in 0..maxLen }

\* a holds the text, b the base
InitParse ==
  /\ pc = "ready"
  /\ op = "none"
  /\ mallocZero \in BOOLEAN
  /\ a \in Texts(MaxStrLen)
  /\ b \in Bases
  /\ res = Invalid(10, FALSE)
  /\ res2 = << >>

\* num is returned and then displayed
ParseOutcome(num) ==
  /\ res' = num
  /\ res2' = display_number(num)

\* res = initialize_number_from_string(a, b); display_number(&res)
Parse ==
  /\ pc = "ready"
  /\ op' = "parse"
  /\ ParseOutcome(initialize_number_from_string(a, b))
  /\ pc' = "parsed"
  /\ UNCHANGED <<a, b, mallocZero>>

NextParse == Parse

SpecParse == InitParse /\ [][NextParse]_vars

\* ch is a digit of the base
IsDigitOf(ch, base) ==
  ch \notin {"-", ".", "(", ")"} /\ glyph_to_value(ch) # INVALID_VALUE
    /\ glyph_to_value(ch) < base

\* how many times ch occurs among the first n characters of str
Occurrences(str, ch, n) == Cardinality({ i \in 1..n : str[i] = ch })

\* the rules of the number syntax a text can break
MinusNotFirst(str) == \E i \in 2..Len(str) : str[i] = "-"

SecondPoint(str) == Occurrences(str, ".", Len(str)) > 1

PointWithoutDigitBefore(str, base) ==
  \E i \in 1..Len(str) :
    str[i] = "." /\ \A j \in 1..(i - 1) : ~IsDigitOf(str[j], base)

PointWithoutDigitAfter(str, base) ==
  \E i \in 1..Len(str) :
    str[i] = "." /\ \A j \in (i + 1)..Len(str) : ~IsDigitOf(str[j], base)

ParenthesisBeforePoint(str) ==
  \E i \in 1..Len(str) : str[i] = "(" /\ Occurrences(str, ".", i - 1) = 0

NestedParenthesis(str) ==
  \E i \in 1..Len(str) :
    str[i] = "(" /\ Occurrences(str, "(", i - 1) > Occurrences(str, ")", i - 1)

CloseWithoutOpen(str) ==
  \E i \in 1..Len(str) :
    str[i] = ")" /\ Occurrences(str, "(", i - 1) <= Occurrences(str, ")", i - 1)

EmptyParentheses(str) ==
  \E i \in 1..(Len(str) - 1) : str[i] = "(" /\ str[i + 1] = ")"

UnclosedParenthesis(str) ==
  Occurrences(str, "(", Len(str)) > Occurrences(str, ")", Len(str))

CharacterAfterClose(str) ==
  \E i \in 1..Len(str) : \E j \in (i + 1)..Len(str) :
    str[i] = ")" /\ str[j] \notin {"-", ".", ")"}

NotADigit(str, base) ==
  \E i \in 1..Len(str) :
    str[i] \notin {"-", ".", "(", ")"} /\ ~IsDigitOf(str[i], base)

NoDigit(str, base) == \A i \in 1..Len(str) : ~IsDigitOf(str[i], base)

BreaksARule(str, base) ==
  \/ MinusNotFirst(str) \/ SecondPoint(str)
  \/ PointWithoutDigitBefore(str, base) \/ PointWithoutDigitAfter(str, base)
  \/ ParenthesisBeforePoint(str) \/ NestedParenthesis(str)
  \/ CloseWithoutOpen(str) \/ EmptyParentheses(str) \/ UnclosedParenthesis(str)
  \/ CharacterAfterClose(str)
  \/ NotADigit(str, base) \/ NoDigit(str, base)

\* C23: initialize_number_from_string returns the invalid Number (length
\* 0, displayed as <<NaN>>) for every text that breaks a rule: a '-' not in
\* front, a second '.', a '.' without a digit before or after it, a '('
\* before any '.', a nested '(', a ')' without a '(', an empty '()', an
\* unclosed '(', a digit or '(' after the closing ')', a character that is
\* no digit of the base, or no digit at all.
C23_ParserRejects ==
  (op = "parse" /\ pc = "parsed" /\ BreaksARule(a, b)) =>
    /\ Len(res.digits) = 0
    /\ res2 = <<"<<NaN>>">>

\* a text whose only fault is the digit after the closing parenthesis
C23_Witness ==
  /\ op = "parse" /\ pc = "parsed"
  /\ CharacterAfterClose(a)
  /\ ~NotADigit(a, b) /\ ~NestedParenthesis(a) /\ ~MinusNotFirst(a) /\ ~SecondPoint(a)
  /\ ~ParenthesisBeforePoint(a) /\ ~PointWithoutDigitBefore(a, b)
  /\ ~EmptyParentheses(a) /\ ~UnclosedParenthesis(a) /\ ~CloseWithoutOpen(a)
  /\ Len(res.digits) = 0

(* ------------- specification: display_number and the parser ----------- *)

\* a canonical Number of a small base with up to MaxLen digits, or of the
\* largest base with up to MaxGlyphLen digits
InitRoundTrip ==
  /\ pc = "ready"
  /\ op = "none"
  /\ mallocZero = TRUE
  /\ \/ \E base \in Bases : a \in CanonicalNumbers(base, MaxLen)
     \/ a \in CanonicalNumbers(MAX_EXT_DIGITS, MaxGlyphLen)
  /\ b = << >>
  /\ res = Invalid(10, FALSE)
  /\ res2 = Invalid(10, FALSE)

\* display_number(&a), the text printed after the base# prefix kept in b
Display ==
  /\ pc = "ready"
  /\ op' = "display"
  /\ b' = display_number(a)
  /\ pc' = "displayed"
  /\ UNCHANGED <<a, res, res2, mallocZero>>

\* res = initialize_number_from_string(b, a.base), of the text displayed
ParseDisplayed ==
  /\ pc = "displayed"
  /\ op' = "parse_displayed"
  /\ res' = initialize_number_from_string(b, a.base)
  /\ pc' = "parsed"
  /\ UNCHANGED <<a, b, res2, mallocZero>>

NextRoundTrip == Display \/ ParseDisplayed

SpecRoundTrip == InitRoundTrip /\ [][NextRoundTrip]_vars

\* where the text for n has its marks: the sign in front, the point before
\* the digit at index length - decimalLength, the opening parenthesis
\* before the digit at index length - repeatingLength, the closing one last
TextLayout(text, n) ==
  LET off == IF n.neg THEN 1 ELSE 0
      point == IF n.dec > 0 THEN 1 ELSE 0
      paren == IF n.rep > 0 THEN 1 ELSE 0
  IN /\ Len(text) = off + Len(n.digits) + point + 2 * paren
     /\ (n.neg => text[1] = "-")
     /\ Occurrences(text, "-", Len(text)) = off
     /\ Occurrences(text, ".", Len(text)) = point
     /\ Occurrences(text, "(", Len(text)) = paren
     /\ Occurrences(text, ")", Len(text)) = paren
     /\ (n.dec > 0 => text[off + (Len(n.digits) - n.dec) + 1] = ".")
     /\ (n.rep > 0 => text[off + (Len(n.digits) - n.rep) + 2] = "(")
     /\ (n.rep > 0 => text[Len(text)] = ")")

\* C24: for a canonical Number n, parsing in n's base the text that
\* display_number prints for n gives a Number equal to n field for field;
\* the text has '.' before index length - decimalLength, '(' before index
\* length - repeatingLength and a closing ')' exactly when repeatingLength
\* is not 0.
C24_DisplayParseRoundTrip ==
  /\ (pc \in {"displayed", "parsed"}) => TextLayout(b, a)
  /\ (pc = "parsed") => res = a

\* a negative repeating Number has made the round trip
C24_Witness ==
  /\ pc = "parsed" /\ a.neg /\ a.rep > 0 /\ a.dec > a.rep
  /\ res = a

(* ---------------- specification: rational_make_from_ints -------------- *)

\* res = rational_make_from_ints(&a, &b)
RationalMake ==
  /\ pc = "ready"
  /\ op' = "rational_make"
  /\ res' = rational_make_from_ints(a, b)
  /\ pc' = "returned"
  /\ UNCHANGED <<a, b, res2, mallocZero>>

NextMake == RationalMake

SpecMake == InitInt /\ [][NextMake]_vars

\* C25: for integer-only inputs num, den of one base with den not zero (of
\* either sign, num possibly zero) rational_make_from_ints returns two
\* canonical integer-only Numbers, the denominator strictly positive and not
\* negative, the numerator never a negative zero.
C25_MakeInvariants ==
  (op = "rational_make" /\ pc = "returned" /\ IntegerOperands
     /\ ~AllZero(b.digits)) =>
    /\ IsCanonical(res.num) /\ IsInteger(res.num)
    /\ IsPositiveCanonical(res.den)
    /\ (Magnitude(res.num) = 0 => ~res.num.neg)

(* ------------------------- frame of the operations -------------------- *)

\* C26: no operation of the integer engine changes an operand: across every
\* call of number_int_add_abs, number_int_sub_abs, number_int_mul_abs,
\* number_int_divmod_abs and number_int_gcd_abs every field and every digit
\* of both inputs is what it was before the call
C26_OperandsUnchanged == [][a' = a /\ b' = b]_vars

(* ---------------------- memory safety of the division ----------------- *)

\* C27: dividing canonical integer-only operands by a denominator that is
\* not zero, every write to the digits of the running remainder is at an
\* index below the capacity of the buffer the remainder holds at that
\* moment, also once that buffer is the one number_int_sub_abs returned
C27_RemainderWritesInBounds ==
  (DivOperands /\ pc # "ready" /\ Magnitude(b) # 0) =>
    ~number_int_divmod_abs(a, b).overflow

(* -------------- specification: parsed operands, then an operation ----- *)

\* the glyphs of a digit string
GlyphText(ds) == [i \in 1..Len(ds) |-> value_to_glyph(ds[i])]

\* the glyphs g with a point after the first p of them and the last r in
\* parentheses
PointedText(g, p, r) ==
  SubSeq(g, 1, p) \o <<".">> \o SubSeq(g, p + 1, Len(g) - r)
    \o (IF r > 0 THEN <<"(">> \o SubSeq(g, Len(g) - r + 1, Len(g)) \o <<")">> ELSE << >>)

\* the texts of a digit string: the integer, and every place of the point
\* (in front of the first digit too) with every repeating block
TextsOf(g) ==
  {g} \cup UNION { { PointedText(g, p, r) : r \in 0..(Len(g) - p) } : p \in 0..(Len(g) - 1) }

\* the texts of up to maxDigits digits of a base, with and without sign
OperandTexts(base, maxDigits) ==
  LET unsigned == UNION { TextsOf(GlyphText(ds)) :
                            ds \in UNION { DigitSeqs(base, n) : n \in 1..maxDigits } }
  IN unsigned \cup { <<"-">> \o t : t \in unsigned }

\* a holds the text of the first operand, b the base
InitChain ==
  /\ pc = "text"
  /\ op = "none"
  /\ mallocZero = TRUE
  /\ b \in Bases
  /\ a \in OperandTexts(b, MaxLenB)
  /\ res = Invalid(10, FALSE)
  /\ res2 = Invalid(10, FALSE)

\* a = initialize_number_from_string(a, b).  The normalize_number that ends
\* it reads in front of the digits when the Number filled has no integer
\* digit.
ParseFirst ==
  /\ pc = "text"
  /\ op' = "parse_first"
  /\ \/ /\ \E g \in (IF normalize_underflows(parsed_digits(a, b)) THEN HeapBytes ELSE {0}) :
             a' = (IF IsValid(parsed_digits(a, b))
                   THEN normalize_number(parsed_digits(a, b), g)
                   ELSE initialize_number_from_string(a, b))
        /\ pc' = "first"
     \/ /\ normalize_underflows(parsed_digits(a, b))
        /\ pc' = "fault"
        /\ UNCHANGED a
  /\ UNCHANGED <<b, res, res2, mallocZero>>

\* b = initialize_number_from_string(text, base) for the second operand
ParseSecond ==
  /\ pc = "first"
  /\ op' = "parse_second"
  /\ \E text \in OperandTexts(b, MaxLenB) :
       \/ /\ \E g \in (IF normalize_underflows(parsed_digits(text, b))
                        THEN HeapBytes ELSE {0}) :
               b' = (IF IsValid(parsed_digits(text, b))
                     THEN normalize_number(parsed_digits(text, b), g)
                     ELSE initialize_number_from_string(text, b))
          /\ pc' = "ready"
       \/ /\ normalize_underflows(parsed_digits(text, b))
          /\ pc' = "fault"
          /\ UNCHANGED b
  /\ UNCHANGED <<a, res, res2, mallocZero>>

NextChain ==
  \/ ParseFirst \/ ParseSecond
  \/ NumberAdd \/ IntAddAbs \/ IntSubAbs \/ IntMulAbs \/ IntDivMod \/ IntGcd

SpecChain == InitChain /\ [][NextChain]_vars

(* ------------------ integer digits of produced Numbers ---------------- *)

HasIntegerDigit(n) == IsValid(n) => n.dec < Len(n.digits)

\* C28: a valid Number the parser produces, and a valid Number an
\* arithmetic primitive returns for valid parsed operands, has an integer
\* digit (decimal_length < length); and no normalize_number reached from the
\* parser or from number_add computes decimal_pos - 1 with decimal_pos = 0
C28_IntegerDigitKept ==
  /\ (pc = "fault" => op \in {"divmod", "int_gcd"})
  /\ (pc = "first" => HasIntegerDigit(a))
  /\ (pc = "ready" => HasIntegerDigit(b))
  /\ (pc \in {"added", "returned", "divided"} /\ IsValid(a) /\ IsValid(b)) =>
       /\ HasIntegerDigit(res)
       /\ HasIntegerDigit(res2)
       /\ (op = "add" => ~number_add_underflows(a, b))

\* a sum of two parsed fractions below one whose digits in front of the
\* point are all zero before normalize_number
C28_Witness ==
  /\ pc = "added" /\ op = "add"
  /\ IsValid(a) /\ IsValid(b) /\ IsValid(res)
  /\ a.dec > 0 /\ b.dec > 0 /\ a.digits[1] = 0 /\ b.digits[1] = 0
  /\ res.dec > 0 /\ res.digits[1] = 0
  /\ Len(res.digits) = res.dec + 1

(* ------------- specification: one value, its period rewritten --------- *)

\* x with its repeating block written twice: F(R) becomes F(RR)
period_doubled(x) ==
  [x EXCEPT !.digits = x.digits \o SubSeq(x.digits, Len(x.digits) - x.rep + 1, Len(x.digits)),
            !.dec = x.dec + x.rep,
            !.rep = 2 * x.rep]

\* x with one period moved into the non-repeating part: F(R) becomes FR(R)
period_unrolled(x) ==
  [x EXCEPT !.digits = x.digits \o SubSeq(x.digits, Len(x.digits) - x.rep + 1, Len(x.digits)),
            !.dec = x.dec + x.rep]

\* a is a canonical repeating Number that is not negative; b and res2 are
\* not in use yet
InitPeriod ==
  /\ pc = "ready"
  /\ op = "none"
  /\ mallocZero = TRUE
  /\ \E base \in Bases :
       a \in { n \in CanonicalNumbers(base, MaxLen) : n.rep > 0 /\ ~n.neg }
  /\ b = Invalid(10, FALSE)
  /\ res = default_rational
  /\ res2 = default_rational

\* the rational of a is kept in res2, a itself in b, and a is written anew
\* with its period twice
RepeatTwice ==
  /\ pc = "returned" /\ ~IsValid(b)
  /\ b' = a
  /\ a' = period_doubled(a)
  /\ res2' = res
  /\ pc' = "ready"
  /\ UNCHANGED <<op, res, mallocZero>>

\* the same with one period unrolled
UnrollPeriod ==
  /\ pc = "returned" /\ ~IsValid(b)
  /\ b' = a
  /\ a' = period_unrolled(a)
  /\ res2' = res
  /\ pc' = "ready"
  /\ UNCHANGED <<op, res, mallocZero>>

NextPeriod == FromRepeating \/ RepeatTwice \/ UnrollPeriod

SpecPeriod == InitPeriod /\ [][NextPeriod]_vars

\* C29: for a canonical Number x >= 0 with a repeating block,
\* rational_from_repeating_number gives for x written with the block twice,
\* and for x written with one period unrolled, the rational it gives for x,
\* field for field
C29_PeriodIndependent ==
  (IsValid(b) /\ pc # "ready") => (pc = "returned" /\ res = res2)

(* ---------------- number_add on equal decimal lengths ----------------- *)

\* the borrow left when number_add subtracts the smaller magnitude from the
\* larger one
FinalBorrow ==
  IF compare_abs(a, b) > 0 THEN sub_same_sign_loops(a, b).carry
  ELSE sub_same_sign_loops(b, a).carry

\* C30: for canonical terminating a and b of one base with the same
\* decimal_length, whatever their signs, number_add(a, b) is the canonical
\* Number whose value is value(a) + value(b); and where the signs differ
\* the subtraction ends with borrow 0
C30_AddExactEqualDecimals ==
  (pc = "added" /\ op = "add" /\ CanonicalOperands /\ a.dec = b.dec) =>
    /\ IsCanonical(res) /\ IsTerminating(res)
    /\ res.base = a.base
    /\ ScaledValue(res, a.dec) = ScaledValue(a, a.dec) + ScaledValue(b, a.dec)
    /\ ((a.neg # b.neg /\ compare_abs(a, b) # 0) => FinalBorrow = 0)

\* operands of different signs with a fractional digit each, the smaller
\* magnitude first, and a digit of the difference that needs a borrow
C30_Witness ==
  /\ pc = "added" /\ op = "add" /\ CanonicalOperands
  /\ a.dec = b.dec /\ a.dec > 0
  /\ ~a.neg /\ b.neg
  /\ compare_abs(a, b) < 0
  /\ b.digits[Len(b.digits)] < a.digits[Len(a.digits)]
  /\ res.neg /\ res.dec = a.dec

============================================================================
